---- MODULE Spec2Model ----
(***************************************************************************)
(* State-machine model of the file service: the upload path (createFile),  *)
(* the detached compression pipeline (CompressionService), the access      *)
(* policy (canAccessFile / canDownloadFile / addFileUrl) and the direct    *)
(* single-record read routes.                                              *)
(*                                                                         *)
(* Every asynchronous handler is cut at its awaits that touch shared state *)
(* (the tbl_files collection, the uploads directory); one action is one    *)
(* such step, and the steps of different handlers interleave freely, as    *)
(* they do on the Node event loop with a database and a disk behind it.    *)
(***************************************************************************)
EXTENDS Integers, Sequences, FiniteSets, TLC

VARIABLES
    env,     \* the parsed process environment (configs/env)
    db,      \* the tbl_files collection: record id -> document, or NoRecord
    disk,    \* the files below uploads/: a set of [dir, id, stem, ext, bytes]
    up,      \* the createFile invocation of the upload in flight
    bg,      \* the detached compressFileAsync task of that upload
    fix,     \* the fixStuckPdfFiles invocation in flight
    req,     \* the direct single-record read request in flight
    resp     \* the HTTP response being sent

vars == <<env, db, disk, up, bg, fix, req, resp>>

-----------------------------------------------------------------------------
(* Values *)

\* Absent values, one per type so that equal-typed values are compared.
Undef == "undefined"                 \* an absent string-valued key
NoSize == 0 - 1                      \* an absent number-valued key
NoSavings == [num |-> 0, den |-> 0]  \* an absent savingsPercentage
NoRecord == [id |-> 0]               \* findById found nothing
NoResp == [op |-> "none"]            \* no response is being sent

FileIds == {1, 2}
Users == {"u1", "u2"}
\* req.user.role as the routes pass it on ((req.user as any)?.role || 'user'),
\* and the absent userRole the service methods also accept.
RouteRoles == {"admin", "user"}
Roles == RouteRoles \cup {Undef}

\* Mimetypes are strings; the code inspects them with startsWith / includes /
\* ===, so they are kept as character sequences.
ImageJpeg == <<"i","m","a","g","e","/","j","p","e","g">>
ImagePng == <<"i","m","a","g","e","/","p","n","g">>
TextPlain == <<"t","e","x","t","/","p","l","a","i","n">>
AppPdf == <<"a","p","p","l","i","c","a","t","i","o","n","/","p","d","f">>
AppZip == <<"a","p","p","l","i","c","a","t","i","o","n","/","z","i","p">>

StartsWith(s, p) == Len(s) >= Len(p) /\ SubSeq(s, 1, Len(p)) = p
Includes(s, p) ==
    \E i \in 1..(Len(s) - Len(p) + 1) : SubSeq(s, i, i + Len(p) - 1) = p

\* The uploads the model draws: (mimetype, extension of originalname).
UploadKinds ==
    { <<ImageJpeg, "jpg">>, <<ImagePng, "png">>, <<TextPlain, "txt">>,
      <<AppPdf, "pdf">>, <<AppZip, "zip">> }

CompressionThresholdSize == 300000

\* File sizes drawn for an upload: just below and at the threshold.
UploadSizes == {CompressionThresholdSize - 1, CompressionThresholdSize}

\* Sizes an encoder may produce for an original of size s.
DerivSizes(s) == {s \div 2, s, s + 1}

-----------------------------------------------------------------------------
(* Access policy *)

\* canAccessFile without the admin clause.
canAccessFile_OwnerOnly(file, userId, userRole) ==
    IF file.isPublic THEN TRUE
    ELSE file.uploadedBy = userId

canAccessFile(file, userId, userRole) ==
    IF file.isPublic THEN TRUE
    ELSE file.uploadedBy = userId \/ userRole = "admin"

canDownloadFile(file, userId, userRole) ==
    IF file.isPublic THEN TRUE
    ELSE file.uploadedBy = userId \/ userRole = "admin"

\* addFileUrl with the derivative URLs outside the canAccess test.
addFileUrl_DerivativesUnguarded(file, userId, userRole) ==
    LET canAccess == canAccessFile(file, userId, userRole)
        canDownload == canDownloadFile(file, userId, userRole)
        ci == file.compressionInfo
    IN  [ id |-> file.id,
          uploadedBy |-> file.uploadedBy,
          isPublic |-> file.isPublic,
          filename |-> file.filename,
          compressionInfo |-> ci,
          canAccess |-> canAccess,
          canDownload |-> canDownload,
          fileUrl |-> IF canAccess THEN "serve" ELSE Undef,
          pngUrl |-> IF ci.compressed THEN "compressed/png" ELSE Undef,
          webpUrl |-> IF ci.compressed THEN "compressed/webp" ELSE Undef,
          downloadUrl |-> IF canDownload THEN "download" ELSE Undef ]

\* addFileUrl defaulting to the webp derivative of every compressed file.
addFileUrl_WebpDefault(file, userId, userRole) ==
    LET canAccess == canAccessFile(file, userId, userRole)
        canDownload == canDownloadFile(file, userId, userRole)
        ci == file.compressionInfo
    IN  [ id |-> file.id,
          uploadedBy |-> file.uploadedBy,
          isPublic |-> file.isPublic,
          filename |-> file.filename,
          compressionInfo |-> ci,
          canAccess |-> canAccess,
          canDownload |-> canDownload,
          fileUrl |->
              IF canAccess
              THEN IF ci.compressed THEN "compressed/webp" ELSE "serve"
              ELSE Undef,
          pngUrl |-> IF canAccess /\ ci.compressed THEN "compressed/png" ELSE Undef,
          webpUrl |-> IF canAccess /\ ci.compressed THEN "compressed/webp" ELSE Undef,
          downloadUrl |-> IF canDownload THEN "download" ELSE Undef ]

\* The URLs are rendered as the route they point at; Undef is an absent key.
addFileUrl(file, userId, userRole) ==
    LET canAccess == canAccessFile(file, userId, userRole)
        canDownload == canDownloadFile(file, userId, userRole)
        ci == file.compressionInfo
    IN  [ id |-> file.id,
          uploadedBy |-> file.uploadedBy,
          isPublic |-> file.isPublic,
          filename |-> file.filename,
          compressionInfo |-> ci,
          canAccess |-> canAccess,
          canDownload |-> canDownload,
          fileUrl |->
              IF canAccess
              THEN IF ci.compressed /\ ci.compressionType = "webp"
                   THEN "compressed/webp"
                   ELSE IF ci.compressed /\ ci.compressionType = "png"
                        THEN "compressed/png"
                        ELSE "serve"
              ELSE Undef,
          pngUrl |-> IF canAccess /\ ci.compressed THEN "compressed/png" ELSE Undef,
          webpUrl |-> IF canAccess /\ ci.compressed THEN "compressed/webp" ELSE Undef,
          downloadUrl |-> IF canDownload THEN "download" ELSE Undef ]

-----------------------------------------------------------------------------
(* Eligibility *)

isImageType(mimetype) == StartsWith(mimetype, <<"i","m","a","g","e","/">>)

isPdfType(mimetype) == mimetype = AppPdf

isTextType(mimetype) ==
    \/ StartsWith(mimetype, <<"t","e","x","t","/">>)
    \/ Includes(mimetype, <<"j","s","o","n">>)
    \/ Includes(mimetype, <<"x","m","l">>)
    \/ Includes(mimetype, <<"c","s","v">>)
    \/ Includes(mimetype, <<"j","a","v","a","s","c","r","i","p","t">>)
    \/ Includes(mimetype, <<"c","s","s">>)
    \/ Includes(mimetype, <<"h","t","m","l">>)

\* shouldCompressFile with the PDF branch answering true.
shouldCompressFile_PdfCompressed(mimetype, size, options, e) ==
    LET Opt(k, default) == IF k \in DOMAIN options THEN options[k] ELSE default
        thresholdSize == Opt("thresholdSize", e.COMPRESSION_THRESHOLD_SIZE)
        compressImages == Opt("compressImages", e.COMPRESS_IMAGE_TYPES)
        compressPdfs == Opt("compressPdfs", FALSE)
        compressText == Opt("compressText", e.COMPRESS_TEXT_TYPES)
    IN  IF compressImages /\ isImageType(mimetype) THEN TRUE
        ELSE IF size < thresholdSize THEN FALSE
        ELSE IF compressPdfs /\ isPdfType(mimetype) THEN TRUE
        ELSE IF compressText /\ isTextType(mimetype) THEN TRUE
        ELSE FALSE

\* shouldCompressFile with the size test ahead of the image test.
shouldCompressFile_SizeFirst(mimetype, size, options, e) ==
    LET Opt(k, default) == IF k \in DOMAIN options THEN options[k] ELSE default
        thresholdSize == Opt("thresholdSize", e.COMPRESSION_THRESHOLD_SIZE)
        compressImages == Opt("compressImages", e.COMPRESS_IMAGE_TYPES)
        compressPdfs == Opt("compressPdfs", FALSE)
        compressText == Opt("compressText", e.COMPRESS_TEXT_TYPES)
    IN  IF size < thresholdSize THEN FALSE
        ELSE IF compressImages /\ isImageType(mimetype) THEN TRUE
        ELSE IF compressPdfs /\ isPdfType(mimetype) THEN FALSE
        ELSE IF compressText /\ isTextType(mimetype) THEN TRUE
        ELSE FALSE

\* shouldCompressFile without the size test.
shouldCompressFile_NoThreshold(mimetype, size, options, e) ==
    LET Opt(k, default) == IF k \in DOMAIN options THEN options[k] ELSE default
        compressImages == Opt("compressImages", e.COMPRESS_IMAGE_TYPES)
        compressPdfs == Opt("compressPdfs", FALSE)
        compressText == Opt("compressText", e.COMPRESS_TEXT_TYPES)
    IN  IF compressImages /\ isImageType(mimetype) THEN TRUE
        ELSE IF compressPdfs /\ isPdfType(mimetype) THEN FALSE
        ELSE IF compressText /\ isTextType(mimetype) THEN TRUE
        ELSE FALSE

\* options: a record holding the keys the caller gave; a key it lacks takes the
\* destructuring default.
shouldCompressFile(mimetype, size, options, e) ==
    LET Opt(k, default) == IF k \in DOMAIN options THEN options[k] ELSE default
        thresholdSize == Opt("thresholdSize", e.COMPRESSION_THRESHOLD_SIZE)
        compressImages == Opt("compressImages", e.COMPRESS_IMAGE_TYPES)
        compressPdfs == Opt("compressPdfs", FALSE)
        compressText == Opt("compressText", e.COMPRESS_TEXT_TYPES)
    IN  IF compressImages /\ isImageType(mimetype) THEN TRUE
        ELSE IF size < thresholdSize THEN FALSE
        ELSE IF compressPdfs /\ isPdfType(mimetype) THEN FALSE
        ELSE IF compressText /\ isTextType(mimetype) THEN TRUE
        ELSE FALSE

\* The options createFile passes: quality, maxWidth, maxHeight only.
CreateFileOptions == [maxWidth |-> 1920, maxHeight |-> 1080]

-----------------------------------------------------------------------------
(* Documents and the disk *)

\* compressionInfo is a nested path of the schema: an update that names it
\* replaces the whole object, so every key the update omits becomes absent.
CompressionInfo(compressed, originalSize, compressedSize, savings, ctype, folderId, status) ==
    [ compressed |-> compressed,
      originalSize |-> originalSize,
      compressedSize |-> compressedSize,
      savingsPercentage |-> savings,
      compressionType |-> ctype,
      folderId |-> folderId,
      compressionStatus |-> status ]

\* The schema default of compressionInfo.compressionStatus, applied by
\* new FileModel(...) when the key is not given.
CompressionStatusDefault == "processing"

TerminalStatus == {"completed", "not_needed", "failed"}

\* uploads/<dir of this upload>/<stem>.<ext>.  dir is "uploads" (the root),
\* "org" (the random folder organizeUploadedFile made for this upload) or
\* "cmp" (the random folder compressFile made for it); stem is "tmp"
\* ({userId}_{tempFileId}) or "rec" ({userId}_{recordId}).
Path(dir, id, stem, ext) == [dir |-> dir, id |-> id, stem |-> stem, ext |-> ext]

PathOf(f) == Path(f.dir, f.id, f.stem, f.ext)

Exists(d, p) == \E f \in d : PathOf(f) = p

BytesAt(d, p) == (CHOOSE f \in d : PathOf(f) = p).bytes

Unlink(d, p) == {f \in d : PathOf(f) # p}

WriteFile(d, p, bytes) ==
    Unlink(d, p) \cup {[dir |-> p.dir, id |-> p.id, stem |-> p.stem, ext |-> p.ext, bytes |-> bytes]}

Rename(d, from, to) == WriteFile(Unlink(d, from), to, BytesAt(d, from))

\* A folder uploads/{folderId} is an entry of its own; its entries are the
\* files stored under it.  Where a specification does not track folders, no
\* such entry exists and Rmdir changes nothing.
DirEntry(dir, id) == [dir |-> dir, id |-> id, stem |-> ".", ext |-> "", bytes |-> "dir"]

HasFolder(d, dir, id) == DirEntry(dir, id) \in d

FolderEntries(d, dir, id) == {f \in d : f.dir = dir /\ f.id = id /\ f.bytes # "dir"}

Mkdir(d, dir, id) == d \cup {DirEntry(dir, id)}

Rmdir(d, dir, id) == d \ {DirEntry(dir, id)}

\* FileModel.findByIdAndUpdate(id, update): no document, no effect.
findByIdAndUpdate(d, id, update) ==
    IF d[id] = NoRecord THEN d
    ELSE [d EXCEPT ![id] = [k \in DOMAIN d[id] |->
                               IF k \in DOMAIN update THEN update[k] ELSE d[id][k]]]

-----------------------------------------------------------------------------
(* Result selection of compressImage *)

\* The result selection trying png before webp.
ImageResult_PngFirst(originalSize, compressedPngSize, webpSize, folderId) ==
    LET webpBelow == webpSize * 100 < 95 * originalSize
        pngBelow == compressedPngSize * 100 < 95 * originalSize
        min == IF compressedPngSize < webpSize THEN compressedPngSize ELSE webpSize
        ctype == IF pngBelow THEN "png"
                 ELSE IF webpSize < compressedPngSize /\ webpBelow THEN "webp"
                 ELSE IF webpSize < compressedPngSize THEN "webp" ELSE "png"
        csize == IF pngBelow THEN compressedPngSize
                 ELSE IF webpSize < compressedPngSize /\ webpBelow THEN webpSize
                 ELSE min
    IN  [ originalSize |-> originalSize,
          compressedSize |-> csize,
          savingsPercentage |-> [num |-> (originalSize - csize) * 100, den |-> originalSize],
          compressionType |-> ctype,
          folderId |-> folderId ]

\* ratio = size / originalSize with originalSize > 0, so ratios compare as the
\* sizes do, and ratio < 0.95 is size * 100 < 95 * originalSize (the sizes are
\* far below 2^53 and no quotient of two of them rounds onto 0.95).
ImageResult(originalSize, compressedPngSize, webpSize, folderId) ==
    LET webpBelow == webpSize * 100 < 95 * originalSize
        pngBelow == compressedPngSize * 100 < 95 * originalSize
        min == IF compressedPngSize < webpSize THEN compressedPngSize ELSE webpSize
        ctype == IF webpSize < compressedPngSize /\ webpBelow THEN "webp"
                 ELSE IF pngBelow THEN "png"
                 ELSE IF webpSize < compressedPngSize THEN "webp" ELSE "png"
        csize == IF webpSize < compressedPngSize /\ webpBelow THEN webpSize
                 ELSE IF pngBelow THEN compressedPngSize
                 ELSE min
    IN  [ originalSize |-> originalSize,
          compressedSize |-> csize,
          savingsPercentage |-> [num |-> (originalSize - csize) * 100, den |-> originalSize],
          compressionType |-> ctype,
          folderId |-> folderId ]

TextResult(originalSize, compressedSize) ==
    [ originalSize |-> originalSize,
      compressedSize |-> compressedSize,
      savingsPercentage |-> [num |-> (originalSize - compressedSize) * 100, den |-> originalSize],
      compressionType |-> "none",
      folderId |-> "" ]

-----------------------------------------------------------------------------
(* Process states *)

NoPath == Path("none", 0, "none", "none")
NoName == <<"none", "none">>
NoResult == [originalSize |-> 0]     \* compressFile resolved null

UpIdle ==
    [ pc |-> "idle", id |-> 0, mimetype |-> <<>>, size |-> 0, uploadedBy |-> Undef,
      enableCompression |-> FALSE, folderInfo |-> Undef, path |-> NoPath,
      filename |-> NoName, result |-> NoRecord ]

BgIdle ==
    [ pc |-> "idle", id |-> 0, filePath |-> NoPath, mimetype |-> <<>>, originalSize |-> 0,
      folder |-> Undef, pngSize |-> 0, webpSize |-> 0,
      png |-> "pending", webp |-> "pending", result |-> NoResult ]

FixIdle == [pc |-> "idle", found |-> {}, userRole |-> Undef, fixedCount |-> 0, quiet |-> FALSE]

ReqIdle == [pc |-> "idle"]

Envs ==
    [ ENABLE_FILE_COMPRESSION : BOOLEAN,
      COMPRESSION_THRESHOLD_SIZE : {CompressionThresholdSize},
      COMPRESS_IMAGE_TYPES : BOOLEAN,
      COMPRESS_TEXT_TYPES : BOOLEAN ]

Init ==
    /\ env \in Envs
    /\ db = [i \in FileIds |-> NoRecord]
    /\ disk = {}
    /\ up = UpIdle
    /\ bg = BgIdle
    /\ fix = FixIdle
    /\ req = ReqIdle
    /\ resp = NoResp

-----------------------------------------------------------------------------
(* createFile, cut at its awaits *)

\* The synchronous head of compressFile, run inside the compressFileAsync call:
\* the global switch, the eligibility re-check, and the choice of the folder.
compressFileStart(filePath, mimetype, originalSize, id, existingFolder, e) ==
    LET task == [BgIdle EXCEPT !.id = id, !.filePath = filePath,
                               !.mimetype = mimetype, !.originalSize = originalSize]
    IN  IF ~e.ENABLE_FILE_COMPRESSION THEN [task EXCEPT !.pc = "null"]
        ELSE IF ~shouldCompressFile(mimetype, originalSize, CreateFileOptions, e)
        THEN [task EXCEPT !.pc = "null"]
        ELSE IF isImageType(mimetype)
        THEN [task EXCEPT !.pc = "transcode",
                          !.folder = IF existingFolder # Undef THEN existingFolder ELSE "cmp"]
        ELSE IF isTextType(mimetype) THEN [task EXCEPT !.pc = "gzip"]
        ELSE [task EXCEPT !.pc = "null"]

\* new FileModel({...validatedData, compressionInfo: {compressed: false,
\* originalSize}}): the document as the first save stores it.
NewFile(id, kind, size, user, isPublic, path) ==
    [ id |-> id,
      filename |-> <<path.stem, kind[2]>>,
      path |-> path,
      mimetype |-> kind[1],
      size |-> size,
      uploadedBy |-> user,
      isPublic |-> isPublic,
      expiresAt |-> "none",
      metadata |-> {},
      compressionInfo |->
          CompressionInfo(FALSE, size, NoSize, NoSavings, Undef, Undef,
                          CompressionStatusDefault) ]

\* POST /upload or /upload-multiple up to and including file.save():
\* multer stores the bytes as uploads/{userId}_{tempFileId}{ext}; on the single
\* route organizeUploadedFile moves them into a fresh folder (req.file is unset
\* on the multiple route, which leaves them in uploads/ and passes no
\* folderInfo); createFile saves the new document.
UploadSave(id, kind, size, user, isPublic, enableCompression, single) ==
    LET dir == IF single THEN "org" ELSE "uploads"
        path == Path(dir, id, "tmp", kind[2])
        doc == NewFile(id, kind, size, user, isPublic, path)
    IN  /\ up.pc = "idle"
        /\ db[id] = NoRecord
        /\ \A j \in FileIds : j < id => db[j] # NoRecord
        /\ disk' = WriteFile(disk, path, "orig")
        /\ db' = [db EXCEPT ![id] = doc]
        /\ up' = [ pc |-> IF single THEN "rename" ELSE "decide",
                   id |-> id, mimetype |-> kind[1], size |-> size, uploadedBy |-> user,
                   enableCompression |-> enableCompression,
                   folderInfo |-> IF single THEN "org" ELSE Undef,
                   path |-> path, filename |-> <<"tmp", kind[2]>>, result |-> NoRecord ]
        /\ resp' = NoResp
        /\ UNCHANGED <<env, bg, fix, req>>

\* A createFile that records the new name before the move and keeps it when
\* the move fails.
UploadRename_RecordsNameFirst(ok) ==
    LET newPath == Path("org", up.id, "rec", up.path.ext)
    IN  /\ up.pc = "rename"
        /\ db' = findByIdAndUpdate(db, up.id,
                    [path |-> newPath, filename |-> <<"rec", up.path.ext>>])
        /\ IF ok /\ Exists(disk, up.path)
           THEN /\ disk' = Rename(disk, up.path, newPath)
                /\ up' = [up EXCEPT !.pc = "updatePath"]
           ELSE /\ disk' = disk
                /\ up' = [up EXCEPT !.pc = "failed"]
        /\ resp' = NoResp
        /\ UNCHANGED <<env, bg, fix, req>>

\* await fs.rename(validatedData.path, newPath); a failure rejects createFile.
UploadRename(ok) ==
    LET newPath == Path("org", up.id, "rec", up.path.ext)
    IN  /\ up.pc = "rename"
        /\ IF ok /\ Exists(disk, up.path)
           THEN /\ disk' = Rename(disk, up.path, newPath)
                /\ up' = [up EXCEPT !.pc = "updatePath"]
           ELSE /\ disk' = disk
                /\ up' = [up EXCEPT !.pc = "failed"]
        /\ resp' = NoResp
        /\ UNCHANGED <<env, db, bg, fix, req>>

\* await FileModel.findByIdAndUpdate(savedFile._id, {path, filename}).
UploadUpdatePath ==
    LET newPath == Path("org", up.id, "rec", up.path.ext)
        newFilename == <<"rec", up.path.ext>>
    IN  /\ up.pc = "updatePath"
        /\ db' = findByIdAndUpdate(db, up.id, [path |-> newPath, filename |-> newFilename])
        /\ up' = [up EXCEPT !.pc = "decide", !.path = newPath, !.filename = newFilename]
        /\ resp' = NoResp
        /\ UNCHANGED <<env, disk, bg, fix, req>>

\* The synchronous stretch from the compression switch to the next await:
\* the eligibility check and, when eligible, the compressFileAsync dispatch.
UploadDecide ==
    /\ up.pc = "decide"
    /\ IF up.enableCompression /\ env.ENABLE_FILE_COMPRESSION
       THEN IF shouldCompressFile(up.mimetype, up.size, CreateFileOptions, env)
            THEN /\ bg' = compressFileStart(up.path, up.mimetype, up.size, up.id,
                                            up.folderInfo, env)
                 /\ up' = [up EXCEPT !.pc = "markProcessing"]
            ELSE /\ bg' = bg
                 /\ up' = [up EXCEPT !.pc = "markNotNeeded"]
       ELSE /\ bg' = bg
            /\ up' = [up EXCEPT !.pc = "respond"]
    /\ resp' = NoResp
    /\ UNCHANGED <<env, db, disk, fix, req>>

\* await findByIdAndUpdate(..., {compressionInfo: {compressed: false,
\* originalSize, compressionStatus: 'processing'}}), issued after the dispatch.
UploadMarkProcessing ==
    /\ up.pc = "markProcessing"
    /\ db' = findByIdAndUpdate(db, up.id,
                [compressionInfo |->
                    CompressionInfo(FALSE, up.size, NoSize, NoSavings, Undef, Undef,
                                    "processing")])
    /\ up' = [up EXCEPT !.pc = "respond"]
    /\ resp' = NoResp
    /\ UNCHANGED <<env, disk, bg, fix, req>>

\* await findByIdAndUpdate(..., {compressionInfo: {..., 'not_needed', folderId}}).
UploadMarkNotNeeded ==
    /\ up.pc = "markNotNeeded"
    /\ db' = findByIdAndUpdate(db, up.id,
                [compressionInfo |->
                    CompressionInfo(FALSE, up.size, NoSize, NoSavings, Undef,
                                    up.folderInfo, "not_needed")])
    /\ up' = [up EXCEPT !.pc = "respond"]
    /\ resp' = NoResp
    /\ UNCHANGED <<env, disk, bg, fix, req>>

\* An HTTP response: docs are the FileWithUrls objects in its body, bytes the
\* file content sent with it, message the APIError MESSAGE's verb on a 401.
\* seen is the document the handler's last findById returned (NoRecord if it
\* found none, or made none): the data the response was decided on.
Response(op, status, message, userId, userRole, docs, bytes, seen) ==
    [ op |-> op, status |-> status, message |-> message, userId |-> userId,
      userRole |-> userRole, docs |-> docs, bytes |-> bytes, seen |-> seen ]

\* The upload routes' addFileUrl on the document createFile returned: with the
\* requester's role on POST /upload, with the literal 'admin' on
\* POST /upload-multiple (which passes no folderInfo).
uploadRouteResponse(file, userId, userRole, single) ==
    Response("upload", 200, "none", userId, userRole,
             {addFileUrl(file, userId, IF single THEN userRole ELSE "admin")},
             "none", NoRecord)

\* savedFile.path: the path the document was created with; the rename of the
\* single-file route updates the stored record, not this in-memory document.
SavedPath == Path(up.path.dir, up.id, "tmp", up.path.ext)

\* savedFile.extractMetadata() for an image: sharp reads savedFile.path and
\* save() writes the metadata path; any error is caught and logged.
extractMetadataOnUpload(d, sharpOk) ==
    IF isImageType(up.mimetype) /\ sharpOk /\ Exists(disk, SavedPath)
    THEN findByIdAndUpdate(d, up.id, [metadata |-> {"image"}])
    ELSE d

\* createFile returning only once the compression has settled.
UploadRespond_AwaitsCompression(role, sharpOk) ==
    /\ up.pc = "respond"
    /\ bg.pc \in {"idle", "done"}
    /\ db[up.id] # NoRecord
    /\ db' = extractMetadataOnUpload(db, sharpOk)
    /\ up' = [up EXCEPT !.pc = "done", !.result = db'[up.id]]
    /\ resp' = uploadRouteResponse(db'[up.id], up.uploadedBy, role, up.folderInfo # Undef)
    /\ UNCHANGED <<env, disk, bg, fix, req>>

\* savedFile.extractMetadata(), return await FileModel.findById(savedFile._id),
\* and the route's response.
UploadRespond(role, sharpOk) ==
    /\ up.pc = "respond"
    /\ db[up.id] # NoRecord
    /\ db' = extractMetadataOnUpload(db, sharpOk)
    /\ up' = [up EXCEPT !.pc = "done", !.result = db'[up.id]]
    /\ resp' = uploadRouteResponse(db'[up.id], up.uploadedBy, role, up.folderInfo # Undef)
    /\ UNCHANGED <<env, disk, bg, fix, req>>

-----------------------------------------------------------------------------
(* The detached compression task: compressFile / compressImage /
   compressTextFile, then the .then of compressFileAsync *)

PngPath(t) == Path(t.folder, t.id, "rec", "png")
WebpPath(t) == Path(t.folder, t.id, "rec", "webp")

\* `${nameWithoutExt}${ext}.gz` in the uploads root.
GzExt(ext) ==
    CASE ext = "txt" -> "txt.gz"
      [] ext = "jpg" -> "jpg.gz"
      [] ext = "png" -> "png.gz"
      [] ext = "pdf" -> "pdf.gz"
      [] OTHER -> "zip.gz"

\* After a write settles: Promise.all is joined; a rejection leaves compressImage
\* through its catch, and compressFile's catch resolves null.
AfterWrites(t) ==
    IF t.png = "pending" \/ t.webp = "pending" THEN t
    ELSE IF t.png = "ok" /\ t.webp = "ok" THEN [t EXCEPT !.pc = "cleanup"]
    ELSE [t EXCEPT !.pc = "resolved", !.result = NoResult]

\* sharp(filePath).metadata() and the two toBuffer() encodes, joined.
BgTranscode(ok, pngSize, webpSize) ==
    /\ bg.pc = "transcode"
    /\ IF ok /\ Exists(disk, bg.filePath)
       THEN bg' = [bg EXCEPT !.pc = "write", !.pngSize = pngSize, !.webpSize = webpSize]
       ELSE bg' = [bg EXCEPT !.pc = "resolved", !.result = NoResult]
    /\ resp' = NoResp
    /\ UNCHANGED <<env, db, disk, up, fix, req>>

\* fs.writeFile(compressedPngPath, compressedPngBuffer).
BgWritePng(ok) ==
    /\ bg.pc = "write"
    /\ bg.png = "pending"
    /\ disk' = IF ok THEN WriteFile(disk, PngPath(bg), "png") ELSE disk
    /\ bg' = AfterWrites([bg EXCEPT !.png = IF ok THEN "ok" ELSE "fail"])
    /\ resp' = NoResp
    /\ UNCHANGED <<env, db, up, fix, req>>

\* fs.writeFile(webpPath, webpBuffer).
BgWriteWebp(ok) ==
    /\ bg.pc = "write"
    /\ bg.webp = "pending"
    /\ disk' = IF ok THEN WriteFile(disk, WebpPath(bg), "webp") ELSE disk
    /\ bg' = AfterWrites([bg EXCEPT !.webp = IF ok THEN "ok" ELSE "fail"])
    /\ resp' = NoResp
    /\ UNCHANGED <<env, db, up, fix, req>>

\* A cleanup without the comparison of the original's path with the
\* derivatives' paths.
BgCleanup_UnlinksSamePath(unlinkOk, rmdirOk) ==
    LET afterUnlink == IF Exists(disk, bg.filePath) /\ unlinkOk
                       THEN Unlink(disk, bg.filePath) ELSE disk
    IN  /\ bg.pc = "cleanup"
        /\ disk' = IF rmdirOk /\ FolderEntries(afterUnlink, bg.folder, bg.id) = {}
                   THEN Rmdir(afterUnlink, bg.folder, bg.id)
                   ELSE afterUnlink
        /\ bg' = [bg EXCEPT !.pc = "resolved",
                            !.result = ImageResult(bg.originalSize, bg.pngSize,
                                                   bg.webpSize, bg.folder)]
        /\ resp' = NoResp
        /\ UNCHANGED <<env, db, up, fix, req>>

\* A cleanup whose failure is passed on: compressImage rejects and
\* compressFile resolves null.
BgCleanup_Rethrows(unlinkOk, rmdirOk) ==
    LET unlinks == Exists(disk, bg.filePath)
                   /\ ~(bg.filePath = PngPath(bg) \/ bg.filePath = WebpPath(bg))
        failed == (unlinks /\ ~unlinkOk) \/ ~rmdirOk
    IN  /\ bg.pc = "cleanup"
        /\ disk' = IF unlinks /\ unlinkOk THEN Unlink(disk, bg.filePath) ELSE disk
        /\ bg' = [bg EXCEPT !.pc = "resolved",
                            !.result = IF failed THEN NoResult
                                       ELSE ImageResult(bg.originalSize, bg.pngSize,
                                                        bg.webpSize, bg.folder)]
        /\ resp' = NoResp
        /\ UNCHANGED <<env, db, up, fix, req>>

\* The existence checks (their results for the derivatives are not used), the
\* unlink of the original unless its path is a derivative's, the rmdir of the
\* folder if readdir finds it empty, and the result.  All of it sits in one
\* try whose catch only logs: a failing unlink skips the rmdir, and neither
\* failure changes the result.
BgCleanup(unlinkOk, rmdirOk) ==
    LET originalFileExists == Exists(disk, bg.filePath)
        isOriginalFileSameAsCompressed ==
            bg.filePath = PngPath(bg) \/ bg.filePath = WebpPath(bg)
        unlinks == originalFileExists /\ ~isOriginalFileSameAsCompressed
        afterUnlink == IF unlinks /\ unlinkOk THEN Unlink(disk, bg.filePath) ELSE disk
        reachesReaddir == ~unlinks \/ unlinkOk
    IN  /\ bg.pc = "cleanup"
        /\ disk' = IF reachesReaddir /\ rmdirOk
                      /\ FolderEntries(afterUnlink, bg.folder, bg.id) = {}
                   THEN Rmdir(afterUnlink, bg.folder, bg.id)
                   ELSE afterUnlink
        /\ bg' = [bg EXCEPT !.pc = "resolved",
                            !.result = ImageResult(bg.originalSize, bg.pngSize,
                                                   bg.webpSize, bg.folder)]
        /\ resp' = NoResp
        /\ UNCHANGED <<env, db, up, fix, req>>

\* compressTextFile: readFile, gzipSync, writeFile of the .gz in uploads/.
BgGzip(ok, compressedSize) ==
    LET gzipPath == Path("uploads", bg.id, bg.filePath.stem, GzExt(bg.filePath.ext))
    IN  /\ bg.pc = "gzip"
        /\ IF ok /\ Exists(disk, bg.filePath)
           THEN /\ disk' = WriteFile(disk, gzipPath, "gz")
                /\ bg' = [bg EXCEPT !.pc = "resolved",
                                    !.result = TextResult(bg.originalSize, compressedSize)]
           ELSE /\ disk' = disk
                /\ bg' = [bg EXCEPT !.pc = "resolved", !.result = NoResult]
        /\ resp' = NoResp
        /\ UNCHANGED <<env, db, up, fix, req>>

\* A completion callback that writes the document back with the defaults of
\* the fields it does not name.
onComplete_ResetsOtherFields(d, id, result, size, folderId) ==
    IF d[id] = NoRecord THEN d
    ELSE [d EXCEPT ![id] =
            [d[id] EXCEPT !.isPublic = FALSE,
                          !.compressionInfo =
                              IF result # NoResult
                              THEN CompressionInfo(TRUE, result.originalSize,
                                                   result.compressedSize,
                                                   result.savingsPercentage,
                                                   result.compressionType,
                                                   result.folderId, "completed")
                              ELSE CompressionInfo(FALSE, size, NoSize, NoSavings, Undef,
                                                   folderId, "not_needed")]]

\* createFile's completion callback, as compressFileAsync invokes it.
onComplete(d, id, result, size, folderId) ==
    IF result # NoResult
    THEN findByIdAndUpdate(d, id,
            [compressionInfo |->
                CompressionInfo(TRUE, result.originalSize, result.compressedSize,
                                result.savingsPercentage, result.compressionType,
                                result.folderId, "completed")])
    ELSE findByIdAndUpdate(d, id,
            [compressionInfo |->
                CompressionInfo(FALSE, size, NoSize, NoSavings, Undef, folderId,
                                "not_needed")])

\* compressFileAsync's .then((result) => { if (result) { onComplete(result) } }):
\* a null result calls nothing; .catch is not reached, compressFile never rejects.
compressFileAsyncThen(d, t, size, folderId) ==
    IF t.result # NoResult THEN onComplete(d, t.id, t.result, size, folderId) ELSE d

BgThen ==
    /\ bg.pc \in {"resolved", "null"}
    /\ db' = compressFileAsyncThen(db, bg, up.size, up.folderInfo)
    /\ bg' = [bg EXCEPT !.pc = "done"]
    /\ resp' = NoResp
    /\ UNCHANGED <<env, disk, up, fix, req>>

-----------------------------------------------------------------------------
(* Maintenance and metadata update *)

\* FileModel.find({mimetype: 'application/pdf', status: 'processing'}).
stuckPdfs(d) ==
    { i \in FileIds : /\ d[i] # NoRecord
                      /\ d[i].mimetype = AppPdf
                      /\ d[i].compressionInfo.compressionStatus = "processing" }

\* POST /cleanup/fix-pdfs: the route reads the requester's role and does not
\* use it; fixStuckPdfFiles takes no argument.  quiet: when the run began the
\* upload had returned and no compression was in flight.
FixStuckFind(userRole) ==
    LET found == {[id |-> i, size |-> db[i].size] : i \in stuckPdfs(db)}
    IN  /\ fix.pc = "idle"
        /\ fix' = [ pc |-> IF found = {} THEN "done" ELSE "loop", found |-> found,
                    userRole |-> userRole, fixedCount |-> 0,
                    quiet |-> (up.pc \in {"done", "failed"} /\ bg.pc \in {"idle", "done"}) ]
        /\ resp' = IF found = {}
                   THEN Response("fix-pdfs", 200, "none", Undef, userRole, {}, "none", NoRecord)
                   ELSE NoResp
        /\ UNCHANGED <<env, db, disk, up, bg, req>>

\* One iteration of the for loop, in the order of the find; after the last
\* one the count is returned.
FixStuckWrite ==
    /\ fix.pc = "loop"
    /\ LET file == CHOOSE f \in fix.found : \A g \in fix.found : f.id <= g.id
           rest == fix.found \ {file}
       IN  /\ db' = findByIdAndUpdate(db, file.id,
                       [compressionInfo |->
                           CompressionInfo(FALSE, file.size, NoSize, NoSavings, Undef,
                                           Undef, "not_needed")])
           /\ fix' = [fix EXCEPT !.found = rest, !.fixedCount = fix.fixedCount + 1,
                                 !.pc = IF rest = {} THEN "done" ELSE "loop"]
           /\ resp' = IF rest = {}
                      THEN Response("fix-pdfs", 200, "none", Undef, fix.userRole, {}, "none",
                                    NoRecord)
                      ELSE NoResp
    /\ UNCHANGED <<env, disk, up, bg, req>>

\* PUT /:fileId: findById, the owner-or-admin check, findByIdAndUpdate with the
\* route's updateData; isPublic is the key of it the model holds.
updateFile(id, userId, userRole, isPublic) ==
    IF db[id] = NoRecord
    THEN /\ db' = db
         /\ resp' = Response("update", 404, "none", userId, userRole, {}, "none", NoRecord)
    ELSE IF db[id].uploadedBy # userId /\ userRole # "admin"
    THEN /\ db' = db
         /\ resp' = Response("update", 403, "none", userId, userRole, {}, "none", db[id])
    ELSE /\ db' = findByIdAndUpdate(db, id, [isPublic |-> isPublic])
         /\ resp' = Response("update", 200, "none", userId, userRole,
                             {addFileUrl(db'[id], userId, userRole)}, "none", db[id])

UpdateFile(id, userId, userRole, isPublic) ==
    /\ updateFile(id, userId, userRole, isPublic)
    /\ UNCHANGED <<env, disk, up, bg, fix, req>>

-----------------------------------------------------------------------------
(* The upload pipeline *)

Uploaders == {"u1"}

Next ==
    \/ \E id \in FileIds, kind \in UploadKinds, size \in UploadSizes, user \in Uploaders,
          isPublic \in BOOLEAN, enableCompression \in BOOLEAN, single \in BOOLEAN :
          UploadSave(id, kind, size, user, isPublic, enableCompression, single)
    \/ \E ok \in BOOLEAN : UploadRename(ok)
    \/ UploadUpdatePath
    \/ UploadDecide
    \/ UploadMarkProcessing
    \/ UploadMarkNotNeeded
    \/ \E role \in RouteRoles, sharpOk \in BOOLEAN : UploadRespond(role, sharpOk)
    \/ \E ok \in BOOLEAN, pngSize \in DerivSizes(bg.originalSize),
          webpSize \in DerivSizes(bg.originalSize) : BgTranscode(ok, pngSize, webpSize)
    \/ \E ok \in BOOLEAN : BgWritePng(ok)
    \/ \E ok \in BOOLEAN : BgWriteWebp(ok)
    \/ \E unlinkOk \in BOOLEAN, rmdirOk \in BOOLEAN : BgCleanup(unlinkOk, rmdirOk)
    \/ \E ok \in BOOLEAN, compressedSize \in DerivSizes(bg.originalSize) :
          BgGzip(ok, compressedSize)
    \/ BgThen
    \/ \E userRole \in RouteRoles : FixStuckFind(userRole)
    \/ FixStuckWrite
    \/ \E id \in FileIds, isPublic \in BOOLEAN :
          db[id] # NoRecord /\ UpdateFile(id, db[id].uploadedBy, "user", isPublic)

Spec == Init /\ [][Next]_vars

-----------------------------------------------------------------------------
(* The read side: the direct single-record routes, cut at their awaits, and
   the list operations *)

DirectOps == {"getById", "serve", "download", "png", "webp"}
ListOps == {"list", "entity", "public", "location", "metadata"}

validateFileAccess(d, id, userId, userRole) ==
    IF d[id] = NoRecord THEN FALSE ELSE canAccessFile(d[id], userId, userRole)

validateFileDownload(d, id, userId, userRole) ==
    IF d[id] = NoRecord THEN FALSE ELSE canDownloadFile(d[id], userId, userRole)

\* getFileById without the canAccessFile test.
getFileById_Unchecked(d, id, userId, userRole) ==
    IF d[id] = NoRecord
    THEN [status |-> 404, message |-> "none", body |-> NoRecord]
    ELSE [status |-> 200, message |-> "none", body |-> addFileUrl(d[id], userId, userRole)]

\* FileService.getFileById: what it throws (status, message) or returns (body).
getFileById(d, id, userId, userRole) ==
    IF d[id] = NoRecord
    THEN [status |-> 404, message |-> "none", body |-> NoRecord]
    ELSE IF ~canAccessFile(d[id], userId, userRole)
    THEN [status |-> 401, message |-> "access", body |-> NoRecord]
    ELSE [status |-> 200, message |-> "none", body |-> addFileUrl(d[id], userId, userRole)]

\* A request arrives; GET /:fileId goes straight to getFileById.
ReqStart(op, id, userId, userRole) ==
    /\ req.pc = "idle"
    /\ req' = [ pc |-> IF op = "getById" THEN "get" ELSE "validate", op |-> op, id |-> id,
                userId |-> userId, userRole |-> userRole, file |-> NoRecord,
                seen |-> NoRecord ]
    /\ resp' = NoResp
    /\ UNCHANGED <<env, db, disk, up, bg, fix>>

\* await validateFileAccess / validateFileDownload, and the route's 401.
ReqValidate ==
    /\ req.pc = "validate"
    /\ LET has == IF req.op = "download"
                  THEN validateFileDownload(db, req.id, req.userId, req.userRole)
                  ELSE validateFileAccess(db, req.id, req.userId, req.userRole)
       IN  IF has
           THEN /\ req' = [req EXCEPT !.pc = "get"]
                /\ resp' = NoResp
           ELSE /\ req' = ReqIdle
                /\ resp' = Response(req.op, 401,
                                    IF req.op = "download" THEN "download" ELSE "view",
                                    req.userId, req.userRole, {}, "none", db[req.id])
    /\ UNCHANGED <<env, db, disk, up, bg, fix>>

\* await fileService.getFileById(fileId, req.user.id, userRole).
ReqGet ==
    /\ req.pc = "get"
    /\ LET r == getFileById(db, req.id, req.userId, req.userRole)
       IN  IF r.status # 200
           THEN /\ req' = ReqIdle
                /\ resp' = Response(req.op, r.status, r.message, req.userId, req.userRole,
                                    {}, "none", db[req.id])
           ELSE IF req.op = "getById"
           THEN /\ req' = ReqIdle
                /\ resp' = Response(req.op, 200, "none", req.userId, req.userRole,
                                    {r.body}, "none", db[req.id])
           ELSE /\ req' = [req EXCEPT !.pc = "disk", !.file = r.body, !.seen = db[req.id]]
                /\ resp' = NoResp
    /\ UNCHANGED <<env, db, disk, up, bg, fix>>

\* if (file.compressionInfo?.folderId): absent and '' are both falsy.
HasFolderId(ci) == ci.folderId # Undef /\ ci.folderId # ""

\* The path the serve and download routes resolve.
ServePath(file) ==
    IF HasFolderId(file.compressionInfo)
    THEN Path(file.compressionInfo.folderId, file.id, file.filename[1], file.filename[2])
    ELSE Path("uploads", file.id, file.filename[1], file.filename[2])

\* The path the compressed route resolves: the filename with its extension
\* replaced by the format's.
CompressedPath(file, format) ==
    Path(file.compressionInfo.folderId, file.id, file.filename[1], format)

\* The rest of the route: the path, fileExistsOnDisk, res.sendFile.
ReqDisk ==
    /\ req.pc = "disk"
    /\ LET file == req.file
           compressedRoute == req.op \in {"png", "webp"}
           unavailable == /\ compressedRoute
                          /\ ~file.compressionInfo.compressed \/ ~HasFolderId(file.compressionInfo)
           filePath == IF compressedRoute /\ ~unavailable
                       THEN CompressedPath(file, req.op) ELSE ServePath(file)
       IN  resp' = IF unavailable \/ ~Exists(disk, filePath)
                   THEN Response(req.op, 404, "none", req.userId, req.userRole, {}, "none",
                                 req.seen)
                   ELSE Response(req.op, 200, "none", req.userId, req.userRole, {},
                                 BytesAt(disk, filePath), req.seen)
    /\ req' = ReqIdle
    /\ UNCHANGED <<env, db, disk, up, bg, fix>>

\* The find of getFiles, searchFilesByLocation and getFilesWithMetadata: the
\* optional uploadedBy and isPublic filters and, for a non-admin, the $or.
\* matching: the documents the filters on keys outside the model let through.
listQuery(d, matching, uploadedBy, isPublic, userId, userRole) ==
    { i \in matching :
        /\ d[i] # NoRecord
        /\ uploadedBy # Undef => d[i].uploadedBy = uploadedBy
        /\ isPublic # Undef => d[i].isPublic = (isPublic = "true")
        /\ userRole # "admin" => (d[i].isPublic \/ d[i].uploadedBy = userId) }

\* The list operations read once and write nothing, so they are taken between
\* the direct requests rather than in the middle of one, one response at a time.
Quiet == req.pc = "idle" /\ resp = NoResp

ListFiles(op, matching, uploadedBy, isPublic, userId, userRole) ==
    /\ Quiet
    /\ resp' = Response(op, 200, "none", userId, userRole,
                        { addFileUrl(db[i], userId, userRole) :
                            i \in listQuery(db, matching, uploadedBy, isPublic, userId, userRole) },
                        "none", NoRecord)
    /\ UNCHANGED <<env, db, disk, up, bg, fix, req>>

\* getFilesByEntity: findByEntity, the canAccessFile filter, addFileUrl.
GetFilesByEntity(matching, userId, userRole) ==
    /\ Quiet
    /\ resp' = Response("entity", 200, "none", userId, userRole,
                        { addFileUrl(db[i], userId, userRole) :
                            i \in { j \in matching : /\ db[j] # NoRecord
                                                     /\ canAccessFile(db[j], userId, userRole) } },
                        "none", NoRecord)
    /\ UNCHANGED <<env, db, disk, up, bg, fix, req>>

\* getPublicFiles: findPublic, addFileUrl.
GetPublicFiles(userId, userRole) ==
    /\ Quiet
    /\ resp' = Response("public", 200, "none", userId, userRole,
                        { addFileUrl(db[i], userId, userRole) :
                            i \in { j \in FileIds : db[j] # NoRecord /\ db[j].isPublic } },
                        "none", NoRecord)
    /\ UNCHANGED <<env, db, disk, up, bg, fix, req>>

\* The response of an upload route for the document createFile returned.
UploadRouteRespond(id, userRole, single) ==
    /\ Quiet
    /\ db[id] # NoRecord
    /\ resp' = uploadRouteResponse(db[id], db[id].uploadedBy, userRole, single)
    /\ UNCHANGED <<env, db, disk, up, bg, fix, req>>

\* FileService.addFileUrl is a public static: applied to a stored document for
\* an arbitrary requester.
ApplyAddFileUrl(id, userId, userRole) ==
    /\ Quiet
    /\ db[id] # NoRecord
    /\ resp' = Response("addFileUrl", 200, "none", userId, userRole,
                        {addFileUrl(db[id], userId, userRole)}, "none", NoRecord)
    /\ UNCHANGED <<env, db, disk, up, bg, fix, req>>

\* The response has left; the next request is taken.
ResponseSent ==
    /\ req.pc = "idle"
    /\ resp # NoResp
    /\ resp' = NoResp
    /\ UNCHANGED <<env, db, disk, up, bg, fix, req>>

\* Model-level methods of the document and the static policy functions, called
\* on arbitrary arguments.
getFileUrl(file, userId, userRole) ==
    IF file.isPublic THEN "serve"
    ELSE IF file.uploadedBy = userId \/ userRole = "admin" THEN "serve"
    ELSE Undef

getDownloadUrl(file, userId, userRole) ==
    IF file.isPublic THEN "download"
    ELSE IF file.uploadedBy = userId \/ userRole = "admin" THEN "download"
    ELSE Undef

CheckPolicy(isPublic, ownerId, requesterId, requesterRole) ==
    LET file == [isPublic |-> isPublic, uploadedBy |-> ownerId]
    IN  /\ Quiet
        /\ resp' = [ op |-> "policy", isPublic |-> isPublic, ownerId |-> ownerId,
                     requesterId |-> requesterId, requesterRole |-> requesterRole,
                     canAccess |-> canAccessFile(file, requesterId, requesterRole),
                     canDownload |-> canDownloadFile(file, requesterId, requesterRole),
                     fileUrl |-> getFileUrl(file, requesterId, requesterRole),
                     downloadUrl |-> getDownloadUrl(file, requesterId, requesterRole) ]
        /\ UNCHANGED <<env, db, disk, up, bg, fix, req>>

\* Documents the pipeline leaves behind for an upload of POST /upload, and the
\* files that then lie in its folder.
SettledShapes == {"not_needed", "completed", "processing"}

SettledDoc(id, user, isPublic, shape) ==
    LET size == CompressionThresholdSize
        image == shape # "not_needed"
        ext == IF image THEN "jpg" ELSE "pdf"
        result == ImageResult(size, size, size \div 2, "org")
    IN  [ id |-> id,
          filename |-> <<"rec", ext>>,
          path |-> Path("org", id, "rec", ext),
          mimetype |-> IF image THEN ImageJpeg ELSE AppPdf,
          size |-> size,
          uploadedBy |-> user,
          isPublic |-> isPublic,
          expiresAt |-> "none",
          metadata |-> {},
          compressionInfo |->
              CASE shape = "not_needed" ->
                     CompressionInfo(FALSE, size, NoSize, NoSavings, Undef, "org", "not_needed")
                [] shape = "completed" ->
                     CompressionInfo(TRUE, size, result.compressedSize,
                                     result.savingsPercentage, result.compressionType,
                                     "org", "completed")
                [] OTHER ->
                     CompressionInfo(FALSE, size, NoSize, NoSavings, Undef, Undef,
                                     "processing") ]

SettledDisk(doc) ==
    IF doc = NoRecord THEN {}
    ELSE IF doc.compressionInfo.compressed
    THEN { [dir |-> "org", id |-> doc.id, stem |-> "rec", ext |-> "png", bytes |-> "png"],
           [dir |-> "org", id |-> doc.id, stem |-> "rec", ext |-> "webp", bytes |-> "webp"] }
    ELSE { [dir |-> "org", id |-> doc.id, stem |-> "rec", ext |-> doc.filename[2],
            bytes |-> "orig"] }

SettledDocs(id) ==
    {NoRecord} \cup { SettledDoc(id, user, isPublic, shape) :
                        user \in Users, isPublic \in BOOLEAN, shape \in SettledShapes }

DefaultEnv ==
    [ ENABLE_FILE_COMPRESSION |-> TRUE,
      COMPRESSION_THRESHOLD_SIZE |-> CompressionThresholdSize,
      COMPRESS_IMAGE_TYPES |-> TRUE,
      COMPRESS_TEXT_TYPES |-> TRUE ]

InitRead ==
    /\ env = DefaultEnv
    /\ db \in { d \in [FileIds -> UNION {SettledDocs(i) : i \in FileIds}] :
                  \A i \in FileIds : d[i] \in SettledDocs(i) }
    /\ disk = UNION {SettledDisk(db[i]) : i \in FileIds}
    /\ up = UpIdle
    /\ bg = BgIdle
    /\ fix = FixIdle
    /\ req = ReqIdle
    /\ resp = NoResp

NextRead ==
    \/ \E op \in DirectOps, id \in FileIds, userId \in Users, userRole \in RouteRoles :
          ReqStart(op, id, userId, userRole)
    \/ ReqValidate
    \/ ReqGet
    \/ ReqDisk
    \/ \E id \in FileIds, userId \in Users, isPublic \in BOOLEAN :
          UpdateFile(id, userId, "user", isPublic)
    \/ ResponseSent
    \/ \E op \in {"list", "location", "metadata"}, matching \in SUBSET FileIds, uploadedBy \in Users \cup {Undef},
          isPublic \in {"true", "false", Undef}, userId \in Users, userRole \in RouteRoles :
          ListFiles(op, matching, uploadedBy, isPublic, userId, userRole)
    \/ \E matching \in SUBSET FileIds, userId \in Users, userRole \in RouteRoles :
          GetFilesByEntity(matching, userId, userRole)
    \/ \E userId \in Users, userRole \in RouteRoles : GetPublicFiles(userId, userRole)
    \/ \E id \in FileIds, userRole \in RouteRoles, single \in BOOLEAN :
          UploadRouteRespond(id, userRole, single)
    \/ \E id \in FileIds, userId \in Users, userRole \in Roles :
          ApplyAddFileUrl(id, userId, userRole)
    \/ \E isPublic \in BOOLEAN, ownerId \in Users, requesterId \in Users,
          requesterRole \in Roles : CheckPolicy(isPublic, ownerId, requesterId, requesterRole)

SpecRead == InitRead /\ [][NextRead]_vars

-----------------------------------------------------------------------------
(* The pure operations, applied to inputs *)

ImageSvg == <<"i","m","a","g","e","/","s","v","g","+","x","m","l">>
AppJson == <<"a","p","p","l","i","c","a","t","i","o","n","/","j","s","o","n">>

Mimetypes == {ImageJpeg, ImagePng, ImageSvg, TextPlain, AppJson, AppPdf, AppZip}

CallSizes ==
    {1, CompressionThresholdSize - 1, CompressionThresholdSize, CompressionThresholdSize + 1}

\* CompressionOptions as callers may give them: any subset of the three type
\* flags, with or without a thresholdSize of their own.
FlagOptions ==
    UNION { [K -> BOOLEAN] : K \in SUBSET {"compressImages", "compressPdfs", "compressText"} }

CallOptions ==
    FlagOptions \cup
        { f @@ ("thresholdSize" :> t) :
            f \in FlagOptions, t \in {1, CompressionThresholdSize + 1} }

\* Each behaviour applies one operation to one input.
ApplyShouldCompress(mimetype, size, options) ==
    /\ resp = NoResp
    /\ resp' = [ op |-> "shouldCompress", mimetype |-> mimetype, size |-> size,
                 options |-> options,
                 result |-> shouldCompressFile(mimetype, size, options, env) ]
    /\ UNCHANGED <<env, db, disk, up, bg, fix, req>>

\* Sizes of an original and of its two encodes.
MaxSize == 24

\* The result selection of compressImage on the sizes of the two buffers.
ApplyImageResult(originalSize, compressedPngSize, webpSize) ==
    /\ resp = NoResp
    /\ resp' = [ op |-> "compressImage", originalSize |-> originalSize,
                 compressedPngSize |-> compressedPngSize, webpSize |-> webpSize,
                 result |-> ImageResult(originalSize, compressedPngSize, webpSize, "org") ]
    /\ UNCHANGED <<env, db, disk, up, bg, fix, req>>

\* The compressionInfo objects createFile and its callback write.
WrittenInfos ==
    LET size == CompressionThresholdSize
        Completed(r) == CompressionInfo(TRUE, r.originalSize, r.compressedSize,
                                        r.savingsPercentage, r.compressionType,
                                        r.folderId, "completed")
    IN  { CompressionInfo(FALSE, size, NoSize, NoSavings, Undef, Undef, "processing"),
          CompressionInfo(FALSE, size, NoSize, NoSavings, Undef, "org", "not_needed"),
          Completed(TextResult(size, size \div 2)) }
        \cup { Completed(ImageResult(size, p, w, "org")) :
                 p \in DerivSizes(size), w \in DerivSizes(size) }

WrittenDocs ==
    { [ id |-> 1, filename |-> <<"rec", "jpg">>, path |-> Path("org", 1, "rec", "jpg"),
        mimetype |-> ImageJpeg, size |-> CompressionThresholdSize,
        uploadedBy |-> user, isPublic |-> isPublic, expiresAt |-> "none",
        metadata |-> {}, compressionInfo |-> ci ] :
        user \in Users, isPublic \in BOOLEAN, ci \in WrittenInfos }

ApplyAddFileUrlTo(file, userId, userRole) ==
    /\ resp = NoResp
    /\ resp' = Response("addFileUrl", 200, "none", userId, userRole,
                        {addFileUrl(file, userId, userRole)}, "none", file)
    /\ UNCHANGED <<env, db, disk, up, bg, fix, req>>

InitPure ==
    /\ env \in {e \in Envs : e.ENABLE_FILE_COMPRESSION}
    /\ db = [i \in FileIds |-> NoRecord]
    /\ disk = {}
    /\ up = UpIdle
    /\ bg = BgIdle
    /\ fix = FixIdle
    /\ req = ReqIdle
    /\ resp = NoResp

NextPure ==
    \/ /\ resp = NoResp
       /\ \E mimetype \in Mimetypes, size \in CallSizes, options \in CallOptions :
             ApplyShouldCompress(mimetype, size, options)
    \/ /\ resp = NoResp
       /\ \E originalSize \in 1..MaxSize, compressedPngSize \in 1..MaxSize,
             webpSize \in 1..MaxSize :
             ApplyImageResult(originalSize, compressedPngSize, webpSize)
    \/ /\ resp = NoResp
       /\ \E file \in WrittenDocs, userId \in Users, userRole \in Roles :
             ApplyAddFileUrlTo(file, userId, userRole)

SpecPure == InitPure /\ [][NextPure]_vars

-----------------------------------------------------------------------------
(* compressFiles: the ZIP archive of several files *)

\* The archiveName of the request body: absent (NoPath), or a name that is the
\* filename of an upload stored in uploads/.
ArchiveNames == {NoPath, Path("uploads", 1, "tmp", "pdf")}

\* path.join(uploadDir, archiveName || `archive_${timestamp}.zip`).
ArchivePath(archiveName) ==
    IF archiveName = NoPath THEN Path("uploads", 0, "archive", "zip") ELSE archiveName

\* POST /compress with a non-empty fileIds array.
FileIdLists == {<<i>> : i \in FileIds} \cup {<<i, j>> : i \in FileIds, j \in FileIds}

\* compressFiles going on to the next id after a failed check.
ZipValidate_SkipDenied ==
    /\ req.pc = "zipValidate"
    /\ LET fileId == req.fileIds[req.k]
           hasAccess == validateFileAccess(db, fileId, req.userId, req.userRole)
       IN  req' = [req EXCEPT !.pc = IF req.k = Len(req.fileIds) THEN "zipFetch"
                                      ELSE "zipValidate",
                              !.k = IF req.k = Len(req.fileIds) THEN req.k ELSE req.k + 1,
                              !.denied = IF hasAccess THEN req.denied
                                         ELSE req.denied \cup {fileId}]
    /\ resp' = NoResp
    /\ UNCHANGED <<env, db, disk, up, bg, fix>>

ZipStart(fileIds, userId, userRole, archiveName) ==
    /\ Quiet
    /\ req' = [ pc |-> "zipValidate", op |-> "zip", fileIds |-> fileIds, k |-> 1,
                userId |-> userId, userRole |-> userRole, archiveName |-> archiveName,
                denied |-> {},
                files |-> <<>>, read |-> <<>>, fileCount |-> 0, failure |-> "none" ]
    /\ resp' = NoResp
    /\ UNCHANGED <<env, db, disk, up, bg, fix>>

\* One turn of the access loop: await validateFileAccess(fileId, ...), and the
\* 401 when it answers false.
ZipValidate ==
    /\ req.pc = "zipValidate"
    /\ LET fileId == req.fileIds[req.k]
           hasAccess == validateFileAccess(db, fileId, req.userId, req.userRole)
       IN  IF ~hasAccess
           THEN /\ req' = [req EXCEPT !.pc = "zipDone", !.denied = {fileId}]
                /\ resp' = Response("zip", 401, "access", req.userId, req.userRole,
                                    {}, "none", db[fileId])
           ELSE /\ req' = IF req.k = Len(req.fileIds)
                          THEN [req EXCEPT !.pc = "zipFetch"]
                          ELSE [req EXCEPT !.k = req.k + 1]
                /\ resp' = NoResp
    /\ UNCHANGED <<env, db, disk, up, bg, fix>>

\* await Promise.all(fileIds.map((id) => FileModel.findById(id))).
ZipFetch ==
    /\ req.pc = "zipFetch"
    /\ req' = [req EXCEPT !.pc = "zipArchive",
                          !.files = [n \in 1..Len(req.fileIds) |-> db[req.fileIds[n]]]]
    /\ resp' = NoResp
    /\ UNCHANGED <<env, db, disk, up, bg, fix>>

\* The path compressFiles hands to archive.file: getFilePath(file.filename).
ArchiveInputPath(file) == Path("uploads", file.id, file.filename[1], file.filename[2])

\* createWriteStream(archivePath), archive.file(getFilePath(file.filename)) for
\* each record, finalize.  The promise is returned, not awaited, so what
\* rejects it passes by compressFiles' catch and reaches the route as it is.
\*  - a record that is null throws inside the executor: rejected;
\*  - an input path with no file: the archiver library either emits 'warning'
\*    (nobody listens, the entry is left out, the archive is finalized and the
\*    promise resolves) or 'error' (rejected), depending on its version;
\*  - a failing output stream emits 'error' on output, which has no listener:
\*    the promise is never settled.
\* failure is "read" when an input could not be read, "write" when the output
\* failed; read lists the ids whose bytes went into the archive.
ZipArchive(onMissing, writeOk) ==
    /\ req.pc = "zipArchive"
    /\ LET n == Len(req.files)
           null == \E m \in 1..n : req.files[m] = NoRecord
           found == [m \in 1..n |->
                        req.files[m] # NoRecord
                        /\ Exists(disk, ArchiveInputPath(req.files[m]))]
           unread == \E m \in 1..n : ~found[m]
           read == SelectSeq([m \in 1..n |-> IF found[m] THEN req.files[m].id ELSE 0],
                             LAMBDA i : i # 0)
           rejected == null \/ (unread /\ onMissing = "error")
           failure == IF unread THEN "read" ELSE IF ~writeOk THEN "write" ELSE "none"
       IN  /\ disk' = WriteFile(disk, ArchivePath(req.archiveName), "zip")
           /\ req' = [req EXCEPT !.pc = "zipDone",
                                 !.read = IF rejected THEN <<>> ELSE read,
                                 !.fileCount = n,
                                 !.failure = failure]
           /\ resp' = IF rejected
                      THEN Response("zip", 500, "raw", req.userId, req.userRole, {}, "none",
                                    NoRecord)
                      ELSE IF ~writeOk
                      THEN Response("zip", 0, "unsettled", req.userId, req.userRole, {},
                                    "none", NoRecord)
                      ELSE Response("zip", 200, "none", req.userId, req.userRole, {},
                                    "none", NoRecord)
    /\ UNCHANGED <<env, db, up, bg, fix>>

\* A record of POST /upload-multiple: its bytes lie in uploads/ under the
\* temporary name, no folder.
RootDoc(id, user, isPublic) ==
    [ id |-> id,
      filename |-> <<"tmp", "pdf">>,
      path |-> Path("uploads", id, "tmp", "pdf"),
      mimetype |-> AppPdf,
      size |-> CompressionThresholdSize,
      uploadedBy |-> user,
      isPublic |-> isPublic,
      expiresAt |-> "none",
      metadata |-> {},
      compressionInfo |->
          CompressionInfo(FALSE, CompressionThresholdSize, NoSize, NoSavings, Undef, Undef,
                          "not_needed") ]

StoredDocs(id) ==
    SettledDocs(id) \cup {RootDoc(id, user, isPublic) : user \in Users, isPublic \in BOOLEAN}

StoredDisk(doc) ==
    IF doc # NoRecord /\ doc.path.dir = "uploads"
    THEN {[dir |-> "uploads", id |-> doc.id, stem |-> "tmp", ext |-> "pdf", bytes |-> "orig"]}
    ELSE SettledDisk(doc)

InitArchive ==
    /\ env = DefaultEnv
    /\ db \in { d \in [FileIds -> UNION {StoredDocs(i) : i \in FileIds}] :
                  \A i \in FileIds : d[i] \in StoredDocs(i) }
    /\ disk = UNION {StoredDisk(db[i]) : i \in FileIds}
    /\ up = UpIdle
    /\ bg = BgIdle
    /\ fix = FixIdle
    /\ req = ReqIdle
    /\ resp = NoResp

\* One archive request, with the owners' updates arriving between its steps.
NextArchive ==
    \/ \E fileIds \in FileIdLists, userId \in Users, userRole \in RouteRoles,
          archiveName \in ArchiveNames : ZipStart(fileIds, userId, userRole, archiveName)
    \/ ZipValidate
    \/ ZipFetch
    \/ \E onMissing \in {"warning", "error"}, writeOk \in BOOLEAN :
          ZipArchive(onMissing, writeOk)
    \/ /\ req.pc \in {"zipValidate", "zipFetch", "zipArchive"}
       /\ \E id \in FileIds, isPublic \in BOOLEAN :
             db[id] # NoRecord /\ UpdateFile(id, db[id].uploadedBy, "user", isPublic)

SpecArchive == InitArchive /\ [][NextArchive]_vars

-----------------------------------------------------------------------------
(* cleanupExpiredFiles, deleteFile and the metadata operations, cut at their
   awaits: one sweep and one requester operation per behaviour, interleaved *)

\* expiresAt against the clock of the sweep: absent, earlier, or later.
ExpiryValues == {"none", "past", "future"}

ChangeOps == {"update", "delete", "location", "custom", "extract"}

\* The APIError statuses of a refused operation (AUTHORIZATION_ERROR of
\* updateFile / deleteFile, Access Denied of the metadata operations).
AuthorizationStatuses == {401, 403}

\* FileModel.findByIdAndDelete(id).
findByIdAndDelete(d, id) == [d EXCEPT ![id] = NoRecord]

\* FileModel.find({ expiresAt: { $lt: now } }), in _id order.
expiredFiles(d) ==
    LET ids == {i \in FileIds : d[i] # NoRecord /\ d[i].expiresAt = "past"}
    IN  SelectSeq(<<1, 2>>, LAMBDA i : i \in ids)

SweepIdle ==
    [ pc |-> "idle", userRole |-> Undef, found |-> <<>>, k |-> 1, file |-> NoRecord,
      deletedCount |-> 0, attempted |-> {}, thrown |-> {}, unlinkFailed |-> {},
      before |-> [i \in FileIds |-> NoRecord], diskBefore |-> {} ]

ChangeIdle ==
    [ pc |-> "idle", op |-> Undef, id |-> 1, userId |-> Undef, userRole |-> Undef,
      file |-> NoRecord ]

SweepReturn(userRole) == Response("cleanup", 200, "none", "system", userRole, {}, "none", NoRecord)

\* The find and the start of the loop, after the role test has passed.
SweepBegin(userRole) ==
    LET found == expiredFiles(db)
    IN  /\ fix' = [SweepIdle EXCEPT !.pc = IF found = <<>> THEN "done" ELSE "find",
                                    !.userRole = userRole, !.found = found,
                                    !.before = db, !.diskBefore = disk]
        /\ resp' = IF found = <<>> THEN SweepReturn(userRole) ELSE NoResp

\* A cleanupExpiredFiles without the role test.
cleanupExpiredFiles_AnyRole(userRole) ==
    /\ fix.pc = "idle"
    /\ SweepBegin(userRole)
    /\ UNCHANGED <<env, db, disk, up, bg, req>>

\* POST /cleanup/expired: cleanupExpiredFiles(userRole) up to the end of its
\* find; any role other than admin is refused before anything is read.
cleanupExpiredFiles(userRole) ==
    /\ fix.pc = "idle"
    /\ IF userRole # "admin"
       THEN /\ fix' = [SweepIdle EXCEPT !.pc = "done", !.userRole = userRole,
                                        !.before = db, !.diskBefore = disk]
            /\ resp' = Response("cleanup", 401, "Access Denied", "system", userRole, {},
                                "none", NoRecord)
       ELSE SweepBegin(userRole)
    /\ UNCHANGED <<env, db, disk, up, bg, req>>

\* The loop moves to the next expired file, or returns deletedCount.
SweepAdvance(f) ==
    IF f.k = Len(f.found)
    THEN [f EXCEPT !.pc = "done", !.file = NoRecord]
    ELSE [f EXCEPT !.pc = "find", !.file = NoRecord, !.k = f.k + 1]

SweepResponse(f) == IF f.pc = "done" THEN SweepReturn(f.userRole) ELSE NoResp

\* deleteFile(id, 'system', 'admin'): findById; a missing record throws 404,
\* which the catch of the loop logs.
SweepFindById ==
    LET id == fix.found[fix.k]
    IN  /\ fix.pc = "find"
        /\ fix' = IF db[id] = NoRecord
                  THEN SweepAdvance([fix EXCEPT !.attempted = @ \cup {id},
                                                !.thrown = @ \cup {id}])
                  ELSE [fix EXCEPT !.pc = "unlink", !.file = db[id],
                                   !.attempted = @ \cup {id}]
        /\ resp' = SweepResponse(fix')
        /\ UNCHANGED <<env, db, disk, up, bg, req>>

\* await fs.unlink(file.path) inside its own try: an error is logged only.
SweepUnlink(ok) ==
    /\ fix.pc = "unlink"
    /\ disk' = IF ok THEN Unlink(disk, fix.file.path) ELSE disk
    /\ fix' = [fix EXCEPT !.pc = "delete",
                          !.unlinkFailed = IF ok THEN @ ELSE @ \cup {fix.file.id}]
    /\ resp' = NoResp
    /\ UNCHANGED <<env, db, up, bg, req>>

\* A loop that gives up at the first deletion that throws.
SweepDelete_AbortsOnThrow(ok) ==
    LET id == fix.found[fix.k]
    IN  /\ fix.pc = "delete"
        /\ db' = IF ok THEN findByIdAndDelete(db, id) ELSE db
        /\ fix' = IF ok
                  THEN SweepAdvance([fix EXCEPT !.deletedCount = @ + 1])
                  ELSE [fix EXCEPT !.pc = "done", !.file = NoRecord,
                                   !.thrown = @ \cup {id}]
        /\ resp' = SweepResponse(fix')
        /\ UNCHANGED <<env, disk, up, bg, req>>

\* await FileModel.findByIdAndDelete(fileId); then deletedCount++, or the
\* catch of the loop when the call throws.
SweepDelete(ok) ==
    LET id == fix.found[fix.k]
    IN  /\ fix.pc = "delete"
        /\ db' = IF ok THEN findByIdAndDelete(db, id) ELSE db
        /\ fix' = IF ok
                  THEN SweepAdvance([fix EXCEPT !.deletedCount = @ + 1])
                  ELSE SweepAdvance([fix EXCEPT !.thrown = @ \cup {id}])
        /\ resp' = SweepResponse(fix')
        /\ UNCHANGED <<env, disk, up, bg, req>>

\* The test each operation makes after its findById.
mayChange(op, file, userId, userRole) ==
    IF op \in {"update", "delete"}
    THEN file.uploadedBy = userId \/ userRole = "admin"
    ELSE canAccessFile(file, userId, userRole)

ChangeDone(op, id, userId, userRole) ==
    [ChangeIdle EXCEPT !.pc = "done", !.op = op, !.id = id, !.userId = userId,
                       !.userRole = userRole]

\* PUT /:fileId as one requester operation.
ChangeUpdate(id, userId, userRole, isPublic) ==
    /\ req.pc = "idle"
    /\ updateFile(id, userId, userRole, isPublic)
    /\ req' = ChangeDone("update", id, userId, userRole)
    /\ UNCHANGED <<env, disk, up, bg, fix>>

\* deleteFile, addLocationMetadata, addCustomMetadata, extractFileMetadata up
\* to their change: findById (404), then the permission test.
ChangeStart(op, id, userId, userRole) ==
    /\ req.pc = "idle"
    /\ IF db[id] = NoRecord
       THEN /\ req' = ChangeDone(op, id, userId, userRole)
            /\ resp' = Response(op, 404, "File not found", userId, userRole, {}, "none",
                                NoRecord)
       ELSE IF ~mayChange(op, db[id], userId, userRole)
       THEN /\ req' = ChangeDone(op, id, userId, userRole)
            /\ resp' = Response(op, IF op = "delete" THEN 403 ELSE 401, "Access Denied",
                                userId, userRole, {}, "none", db[id])
       ELSE /\ req' = [ pc |-> IF op = "delete" THEN "unlink" ELSE "save", op |-> op,
                        id |-> id, userId |-> userId, userRole |-> userRole,
                        file |-> db[id] ]
            /\ resp' = NoResp
    /\ UNCHANGED <<env, db, disk, up, bg, fix>>

\* DELETE /:fileId: await fs.unlink(file.path), errors logged only.
ChangeUnlink(ok) ==
    /\ req.pc = "unlink"
    /\ disk' = IF ok THEN Unlink(disk, req.file.path) ELSE disk
    /\ req' = [req EXCEPT !.pc = "remove"]
    /\ resp' = NoResp
    /\ UNCHANGED <<env, db, up, bg, fix>>

\* DELETE /:fileId: await FileModel.findByIdAndDelete(fileId).
ChangeRemove(ok) ==
    /\ req.pc = "remove"
    /\ db' = IF ok THEN findByIdAndDelete(db, req.id) ELSE db
    /\ req' = [req EXCEPT !.pc = "done", !.file = NoRecord]
    /\ resp' = Response("delete", IF ok THEN 200 ELSE 500, "none", req.userId, req.userRole,
                        {}, "none", req.file)
    /\ UNCHANGED <<env, disk, up, bg, fix>>

\* The metadata the in-memory document holds when it is saved:
\* this.metadata = {...this.metadata, <key>: ...}; extractMetadata sets image
\* only for an image that sharp can read at this.path.
changedMetadata(op, file, sharpOk) ==
    CASE op = "location" -> file.metadata \cup {"location"}
      [] op = "custom"   -> file.metadata \cup {"custom"}
      [] OTHER           -> IF isImageType(file.mimetype) /\ sharpOk
                               /\ Exists(disk, file.path)
                            THEN file.metadata \cup {"image"}
                            ELSE file.metadata

\* await file.save(): the modified metadata path is written to the stored
\* record; a record deleted since the findById makes save throw, which
\* extractMetadata logs and the other two operations pass on.
ChangeSave(sharpOk) ==
    LET metadata == changedMetadata(req.op, req.file, sharpOk)
        written == metadata # req.file.metadata
    IN  /\ req.pc = "save"
        /\ db' = IF written THEN findByIdAndUpdate(db, req.id, [metadata |-> metadata])
                 ELSE db
        /\ req' = [req EXCEPT !.pc = "done", !.file = NoRecord]
        /\ resp' = Response(req.op,
                            IF written /\ db[req.id] = NoRecord /\ req.op # "extract"
                            THEN 500 ELSE 200,
                            "none", req.userId, req.userRole, {}, "none", req.file)
        /\ UNCHANGED <<env, disk, up, bg, fix>>

\* Stored records with an expiry, owned by u1, and their files.
ExpiringDocs(id) ==
    {NoRecord} \cup
    { [SettledDoc(id, "u1", isPublic, shape) EXCEPT !.expiresAt = e] :
        isPublic \in BOOLEAN, shape \in {"not_needed", "completed"}, e \in ExpiryValues }

InitMaint ==
    /\ env = DefaultEnv
    /\ db \in { d \in [FileIds -> UNION {ExpiringDocs(i) : i \in FileIds}] :
                  \A i \in FileIds : d[i] \in ExpiringDocs(i) }
    /\ disk = UNION {SettledDisk(db[i]) : i \in FileIds}
    /\ up = UpIdle
    /\ bg = BgIdle
    /\ fix = SweepIdle
    /\ req = ChangeIdle
    /\ resp = NoResp

NextMaint ==
    \/ \E userRole \in RouteRoles : cleanupExpiredFiles(userRole)
    \/ SweepFindById
    \/ \E ok \in BOOLEAN : SweepUnlink(ok)
    \/ \E ok \in BOOLEAN : SweepDelete(ok)
    \/ \E id \in FileIds, userId \in Users, userRole \in RouteRoles, isPublic \in BOOLEAN :
          ChangeUpdate(id, userId, userRole, isPublic)
    \/ \E op \in ChangeOps \ {"update"}, id \in FileIds, userId \in Users,
          userRole \in RouteRoles : ChangeStart(op, id, userId, userRole)
    \/ \E ok \in BOOLEAN : ChangeUnlink(ok)
    \/ \E ok \in BOOLEAN : ChangeRemove(ok)
    \/ \E sharpOk \in BOOLEAN : ChangeSave(sharpOk)

SpecMaint == InitMaint /\ [][NextMaint]_vars

-----------------------------------------------------------------------------
(* The folders below uploads/: organizeUploadedFile, the cleanup of
   compressImage and the periodic cleanupEmptyFolders, with one upload of
   POST /upload, one DELETE and one run of the sweep interleaved *)

\* Folder names: one per record id, and one that belongs to no record.
FolderIds == FileIds \cup {3}

\* The orders in which readdir may list a set of folders.
Orders(S) ==
    { o \in [1..Cardinality(S) -> S] : \A m, n \in DOMAIN o : m # n => o[m] # o[n] }

FoldersIdle ==
    [ pc |-> "idle", folders |-> <<>>, k |-> 1, examined |-> {}, removed |-> {},
      error |-> "none" ]

\* multer's diskStorage: the bytes arrive as uploads/{userId}_{tempFileId}{ext}.
uploadSingle(id, kind, size) ==
    LET path == Path("uploads", id, "tmp", kind[2])
    IN  /\ up.pc = "idle"
        /\ db[id] = NoRecord
        /\ \A j \in FileIds : j < id => db[j] # NoRecord
        /\ disk' = WriteFile(disk, path, "orig")
        /\ up' = [UpIdle EXCEPT !.pc = "mkdir", !.id = id, !.mimetype = kind[1],
                                !.size = size, !.uploadedBy = "u1",
                                !.enableCompression = TRUE, !.path = path,
                                !.filename = <<"tmp", kind[2]>>]
        /\ resp' = NoResp
        /\ UNCHANGED <<env, db, bg, fix, req>>

\* organizeUploadedFile: await fs.mkdir(folderPath, {recursive: true}).
organizeMkdir ==
    /\ up.pc = "mkdir"
    /\ disk' = Mkdir(disk, "org", up.id)
    /\ up' = [up EXCEPT !.pc = "move"]
    /\ resp' = NoResp
    /\ UNCHANGED <<env, db, bg, fix, req>>

\* organizeUploadedFile: await fs.rename(originalPath, newPath); the rename
\* fails when the folder is gone, and next(error) ends the request.
organizeRename(ok) ==
    LET newPath == Path("org", up.id, "tmp", up.path.ext)
    IN  /\ up.pc = "move"
        /\ IF ok /\ HasFolder(disk, "org", up.id) /\ Exists(disk, up.path)
           THEN /\ disk' = Rename(disk, up.path, newPath)
                /\ up' = [up EXCEPT !.pc = "save", !.path = newPath, !.folderInfo = "org"]
           ELSE /\ disk' = disk
                /\ up' = [up EXCEPT !.pc = "failed"]
        /\ resp' = NoResp
        /\ UNCHANGED <<env, db, bg, fix, req>>

\* createFile: const savedFile = await file.save().
createFileSave ==
    /\ up.pc = "save"
    /\ db' = [db EXCEPT ![up.id] =
                 NewFile(up.id, <<up.mimetype, up.path.ext>>, up.size, up.uploadedBy,
                         FALSE, up.path)]
    /\ up' = [up EXCEPT !.pc = "rename"]
    /\ resp' = NoResp
    /\ UNCHANGED <<env, disk, bg, fix, req>>

\* fs.writeFile into a folder that no longer exists rejects with ENOENT.
FolderWritePng(ok) == (ok => HasFolder(disk, bg.folder, bg.id)) /\ BgWritePng(ok)

FolderWriteWebp(ok) == (ok => HasFolder(disk, bg.folder, bg.id)) /\ BgWriteWebp(ok)

\* cleanupEmptyFolders: readdir(uploadDir, {withFileTypes: true}); the files in
\* uploads/ itself are skipped by isDirectory().
cleanupEmptyFolders(order) ==
    /\ fix.pc = "idle"
    /\ fix' = [FoldersIdle EXCEPT !.pc = IF order = <<>> THEN "done" ELSE "readdir",
                                  !.folders = order]
    /\ resp' = NoResp
    /\ UNCHANGED <<env, db, disk, up, bg, req>>

FoldersAdvance(f) ==
    IF f.k = Len(f.folders) THEN [f EXCEPT !.pc = "done"]
    ELSE [f EXCEPT !.pc = "readdir", !.k = f.k + 1]

\* The catch around the whole loop: the error is logged, the loop is left,
\* and nothing reaches the setInterval callback.
FoldersCatch(f, error) == [f EXCEPT !.pc = "done", !.error = error]

\* const contents = await fs.readdir(folderPath).
FoldersReaddir(ok) ==
    LET id == fix.folders[fix.k]
        seen == [fix EXCEPT !.examined = @ \cup {id}]
    IN  /\ fix.pc = "readdir"
        /\ fix' = IF ~ok \/ ~HasFolder(disk, "org", id) THEN FoldersCatch(seen, "readdir")
                  ELSE IF FolderEntries(disk, "org", id) = {}
                  THEN [seen EXCEPT !.pc = "rmdir"]
                  ELSE FoldersAdvance(seen)
        /\ resp' = NoResp
        /\ UNCHANGED <<env, db, disk, up, bg, req>>

\* A sweep that removes the folder with whatever it holds by then.
FoldersRmdir_Recursive(ok) ==
    LET id == fix.folders[fix.k]
    IN  /\ fix.pc = "rmdir"
        /\ IF ok /\ HasFolder(disk, "org", id)
           THEN /\ disk' = Rmdir(disk, "org", id) \ FolderEntries(disk, "org", id)
                /\ fix' = FoldersAdvance([fix EXCEPT !.removed = @ \cup {id}])
           ELSE /\ disk' = disk
                /\ fix' = FoldersCatch(fix, "rmdir")
        /\ resp' = NoResp
        /\ UNCHANGED <<env, db, up, bg, req>>

\* await fs.rmdir(folderPath): rejects (ENOTEMPTY, ENOENT) unless the folder
\* exists and is empty at that moment.
FoldersRmdir(ok) ==
    LET id == fix.folders[fix.k]
    IN  /\ fix.pc = "rmdir"
        /\ IF ok /\ HasFolder(disk, "org", id) /\ FolderEntries(disk, "org", id) = {}
           THEN /\ disk' = Rmdir(disk, "org", id)
                /\ fix' = FoldersAdvance([fix EXCEPT !.removed = @ \cup {id}])
           ELSE /\ disk' = disk
                /\ fix' = FoldersCatch(fix, "rmdir")
        /\ resp' = NoResp
        /\ UNCHANGED <<env, db, up, bg, req>>

\* What is stored before the upload arrives: possibly a settled record with
\* its folder, possibly a folder that belongs to no record.
FolderDocs == {NoRecord, SettledDoc(2, "u1", FALSE, "completed")}

InitFolders ==
    /\ env = DefaultEnv
    /\ \E doc \in FolderDocs, stale \in SUBSET {2, 3} :
          /\ db = [i \in FileIds |-> IF i = 2 THEN doc ELSE NoRecord]
          /\ disk = SettledDisk(doc)
                    \cup {DirEntry("org", i) : i \in IF doc = NoRecord THEN stale
                                                      ELSE (stale \cup {2})}
    /\ up = UpIdle
    /\ bg = BgIdle
    /\ fix = FoldersIdle
    /\ req = ChangeIdle
    /\ resp = NoResp

NextFolders ==
    \/ \E kind \in {<<ImageJpeg, "jpg">>, <<ImagePng, "png">>} :
          uploadSingle(1, kind, CompressionThresholdSize)
    \/ organizeMkdir
    \/ \E ok \in BOOLEAN : organizeRename(ok)
    \/ createFileSave
    \/ \E ok \in BOOLEAN : UploadRename(ok)
    \/ UploadUpdatePath
    \/ UploadDecide
    \/ UploadMarkProcessing
    \/ UploadRespond("user", TRUE)
    \/ \E ok \in BOOLEAN : BgTranscode(ok, bg.originalSize \div 2, bg.originalSize \div 2)
    \/ \E ok \in BOOLEAN : FolderWritePng(ok)
    \/ \E ok \in BOOLEAN : FolderWriteWebp(ok)
    \/ \E unlinkOk \in BOOLEAN, rmdirOk \in BOOLEAN : BgCleanup(unlinkOk, rmdirOk)
    \/ BgThen
    \/ \E order \in Orders({i \in FolderIds : HasFolder(disk, "org", i)}) :
          cleanupEmptyFolders(order)
    \/ \E ok \in BOOLEAN : FoldersReaddir(ok)
    \/ \E ok \in BOOLEAN : FoldersRmdir(ok)
    \/ \E id \in FileIds : ChangeStart("delete", id, "u1", "user")
    \/ \E ok \in BOOLEAN : ChangeUnlink(ok)
    \/ \E ok \in BOOLEAN : ChangeRemove(ok)

SpecFolders == InitFolders /\ [][NextFolders]_vars

-----------------------------------------------------------------------------
(* Two metadata requests at once: addLocationMetadata, addCustomMetadata and
   extractFileMetadata of two requesters, cut at findById and save *)

Requesters == {"a", "b"}

MetadataOps == {"location", "custom", "extract"}

MetadataIdle ==
    [ pc |-> "idle", op |-> Undef, id |-> 1, userId |-> Undef, file |-> NoRecord,
      status |-> 0 ]

\* const file = await FileModel.findById(fileId), the 404, the canAccessFile
\* test and its 401; the document stays in the request's memory.
MetadataFind(r, op, id, userId, userRole) ==
    LET status == IF db[id] = NoRecord THEN 404
                  ELSE IF ~mayChange(op, db[id], userId, userRole) THEN 401
                  ELSE 0
    IN  /\ req[r].pc = "idle"
        /\ req' = [req EXCEPT ![r] =
                      [ pc |-> IF status = 0 THEN "save" ELSE "done", op |-> op, id |-> id,
                        userId |-> userId,
                        file |-> IF status = 0 THEN db[id] ELSE NoRecord,
                        status |-> status ]]
        /\ resp' = IF status = 0 THEN NoResp
                   ELSE Response(op, status, "none", userId, userRole, {}, "none", db[id])
        /\ UNCHANGED <<env, db, disk, up, bg, fix>>

\* file.add...Metadata(...) on the document in memory, then await file.save():
\* the metadata path of the stored record is set to the document's metadata.
MetadataSave(r, sharpOk) ==
    LET metadata == changedMetadata(req[r].op, req[r].file, sharpOk)
        written == metadata # req[r].file.metadata
    IN  /\ req[r].pc = "save"
        /\ db' = IF written THEN findByIdAndUpdate(db, req[r].id, [metadata |-> metadata])
                 ELSE db
        /\ req' = [req EXCEPT ![r].pc = "done", ![r].status = 200]
        /\ resp' = Response(req[r].op, 200, "none", req[r].userId, "user", {}, "none",
                            req[r].file)
        /\ UNCHANGED <<env, disk, up, bg, fix>>

\* Stored records and what their metadata holds before the requests.
MetadataDocs(id) ==
    {NoRecord} \cup
    { [SettledDoc(id, "u1", isPublic, shape) EXCEPT !.metadata = m] :
        isPublic \in BOOLEAN, shape \in {"not_needed", "completed"},
        m \in {{}, {"image"}} }

InitMetadata ==
    /\ env = DefaultEnv
    /\ db \in { d \in [FileIds -> UNION {MetadataDocs(i) : i \in FileIds}] :
                  \A i \in FileIds : d[i] \in MetadataDocs(i) }
    /\ disk = UNION {SettledDisk(db[i]) : i \in FileIds}
    /\ up = UpIdle
    /\ bg = BgIdle
    /\ fix = FixIdle
    /\ req = [r \in Requesters |-> MetadataIdle]
    /\ resp = NoResp

NextMetadata ==
    \/ \E r \in Requesters, op \in MetadataOps, id \in FileIds, userId \in Users :
          MetadataFind(r, op, id, userId, "user")
    \/ \E r \in Requesters, sharpOk \in BOOLEAN : MetadataSave(r, sharpOk)

SpecMetadata == InitMetadata /\ [][NextMetadata]_vars

-----------------------------------------------------------------------------
(* Properties *)

\* The access policy as the specification states it.
PolicyAllows(isPublic, ownerId, requesterId, requesterRole) ==
    isPublic \/ requesterId = ownerId \/ requesterRole = "admin"

\* C1: for every (isPublic, ownerId, requesterId, requesterRole), canAccessFile
\* is true iff isPublic or requesterId = ownerId or requesterRole = "admin",
\* and canDownloadFile returns the same value.
C1_AccessPolicy ==
    resp.op = "policy" =>
        /\ resp.canAccess = PolicyAllows(resp.isPublic, resp.ownerId, resp.requesterId,
                                         resp.requesterRole)
        /\ resp.canDownload = resp.canAccess

\* An admin who is not the owner is granted a private file.
C1_Witness ==
    /\ resp.op = "policy"
    /\ ~resp.isPublic
    /\ resp.requesterId # resp.ownerId
    /\ resp.requesterRole = "admin"
    /\ resp.canAccess
    /\ resp.canDownload

C3_UrlsFollowPolicy ==
    resp.op \in ({"upload", "getById", "update", "addFileUrl"} \cup ListOps) =>
        \A doc \in resp.docs :
            LET allowed == PolicyAllows(doc.isPublic, doc.uploadedBy, resp.userId,
                                        resp.userRole)
            IN  /\ doc.canAccess = allowed
                /\ doc.canDownload = allowed
                /\ ~doc.canAccess =>
                       (doc.fileUrl = Undef /\ doc.pngUrl = Undef /\ doc.webpUrl = Undef)
                /\ ~doc.canDownload => doc.downloadUrl = Undef

\* A compressed private file rendered for a stranger: no URL at all.
C3_Witness ==
    /\ resp.op = "addFileUrl"
    /\ \E doc \in resp.docs :
          /\ doc.compressionInfo.compressed
          /\ ~doc.canAccess
          /\ ~doc.canDownload
          /\ doc.fileUrl = Undef
          /\ doc.pngUrl = Undef
          /\ doc.webpUrl = Undef
          /\ doc.downloadUrl = Undef

Status(i) == db[i].compressionInfo.compressionStatus

\* C4: compressionStatus only moves from processing to a terminal value, and a
\* terminal value is never changed again, in every interleaving of the
\* processing write, the completion callback and fixStuckPdfFiles.
C4_StatusOnlyForward ==
    [][ \A i \in FileIds :
          (db[i] # NoRecord /\ db'[i] # NoRecord /\ Status(i)' # Status(i))
              => (Status(i) = "processing" /\ Status(i)' \in TerminalStatus) ]_vars

\* The upload has returned and its compression attempt has ended in failure.
AttemptFailed ==
    up.pc = "done" /\ bg.pc = "done" /\ bg.id = up.id /\ bg.result = NoResult

\* C5: once a dispatched compression attempt has failed and the upload has
\* returned, the record's compressionStatus is not_needed or failed, not
\* processing.
C5_FailureRecorded ==
    AttemptFailed => Status(up.id) \in {"not_needed", "failed"}

\* C6: createFile never fails because of the compression and never waits for
\* it: it fails only before anything was dispatched, its steps after the
\* dispatch are enabled whatever the task is doing, and it returns the record.
C6_UploadIndependentOfCompression ==
    /\ up.pc = "failed" => bg.pc = "idle"
    /\ up.pc = "markProcessing" => ENABLED UploadMarkProcessing
    /\ up.pc = "respond" => ENABLED (\E role \in RouteRoles, sharpOk \in BOOLEAN :
                                       UploadRespond(role, sharpOk))
    /\ up.pc = "done" => up.result # NoRecord /\ up.result.id = up.id

\* The upload has returned while the compression is still writing, one of its
\* writes having failed.
C6_Witness ==
    /\ up.pc = "done"
    /\ up.result # NoRecord
    /\ bg.pc = "write"
    /\ bg.png = "fail"

\* Eligible: compression is enabled for the upload and globally, and
\* shouldCompressFile accepts the file.
Eligible ==
    /\ up.enableCompression
    /\ env.ENABLE_FILE_COMPRESSION
    /\ shouldCompressFile(up.mimetype, up.size, CreateFileOptions, env)

\* C7: the record createFile returns has compressionStatus processing when the
\* upload is eligible and not_needed otherwise (also when compression is
\* disabled for the upload or globally); completed is never in it.
C7_UploadResponseStatus ==
    up.pc = "done" =>
        up.result.compressionInfo.compressionStatus =
            IF Eligible THEN "processing" ELSE "not_needed"

\* The upload has returned and the transcode of its image has succeeded and
\* been handed to the completion callback.
ImageCompressed ==
    /\ up.pc = "done"
    /\ bg.pc = "done"
    /\ bg.id = up.id
    /\ bg.result # NoResult
    /\ isImageType(up.mimetype)

\* C8: once the transcode of an eligible image has succeeded, the record is
\* completed, compressed, with compressionType png or webp, and a re-fetch by
\* the owner shows both derivative URLs and the default URL of that type.
C8_CompletedAndServed ==
    ImageCompressed =>
        LET ci == db[up.id].compressionInfo
            r == getFileById(db, up.id, up.uploadedBy, "user")
        IN  /\ ci.compressionStatus = "completed"
            /\ ci.compressed
            /\ ci.compressionType \in {"png", "webp"}
            /\ r.status = 200
            /\ r.body.pngUrl = "compressed/png"
            /\ r.body.webpUrl = "compressed/webp"
            /\ r.body.fileUrl = (IF ci.compressionType = "webp"
                                 THEN "compressed/webp" ELSE "compressed/png")

OriginalOnDisk(i) == \E f \in disk : f.id = i /\ f.bytes = "orig"

DerivativesOnDisk(dir, i) ==
    /\ Exists(disk, Path(dir, i, "rec", "png"))
    /\ Exists(disk, Path(dir, i, "rec", "webp"))

\* C9: during image compression the original bytes are gone only when both
\* derivatives are on disk, and when the transcode or a derivative write has
\* failed the original bytes are intact at the original path.
C9_OriginalKeptUntilVerified ==
    (bg.pc # "idle" /\ isImageType(bg.mimetype)) =>
        /\ ~OriginalOnDisk(bg.id) => DerivativesOnDisk(bg.folder, bg.id)
        /\ (bg.pc \in {"resolved", "done"} /\ bg.result = NoResult)
           => (Exists(disk, bg.filePath) /\ BytesAt(disk, bg.filePath) = "orig")

\* C10: a record marked compressed or completed has both derivatives on disk in
\* its folder, for every mimetype that enters the pipeline.
C10_DerivativesOfCompressed ==
    \A i \in FileIds :
        ( /\ db[i] # NoRecord
          /\ db[i].compressionInfo.compressed \/ Status(i) = "completed" )
        => ( /\ HasFolderId(db[i].compressionInfo)
             /\ DerivativesOnDisk(db[i].compressionInfo.folderId, i) )

FolderId(i) == db[i].compressionInfo.folderId

\* C11: once a record's compressionInfo.folderId holds a value, every later
\* state of the record holds the same folderId, whatever write comes next.
C11_FolderIdImmutable ==
    [][ \A i \in FileIds :
          (db[i] # NoRecord /\ db'[i] # NoRecord /\ HasFolderId(db[i].compressionInfo))
              => FolderId(i)' = FolderId(i) ]_vars

\* C12: a record that is completed, of an upload organizeUploadedFile placed
\* in a folder, has that folder as its compressionInfo.folderId.
C12_CompletedInSuppliedFolder ==
    ( /\ up.pc # "idle"
      /\ up.folderInfo # Undef
      /\ db[up.id] # NoRecord
      /\ Status(up.id) = "completed" )
    => FolderId(up.id) = up.folderInfo

\* C13: after a failed compression attempt of an upload placed in a folder, the
\* record's folderId is that folder, and the path the serve and download routes
\* resolve holds the uploaded bytes.
C13_FolderKeptOnFailure ==
    (AttemptFailed /\ up.folderInfo # Undef /\ Exists(disk, up.path)) =>
        /\ FolderId(up.id) = up.folderInfo
        /\ Exists(disk, ServePath(db[up.id]))

\* The flags and the threshold in force for a shouldCompressFile call.
InForce(k, default) == IF k \in DOMAIN resp.options THEN resp.options[k] ELSE default

ImagesEnabled == InForce("compressImages", env.COMPRESS_IMAGE_TYPES)
TextEnabled == InForce("compressText", env.COMPRESS_TEXT_TYPES)
AtThreshold == resp.size >= InForce("thresholdSize", env.COMPRESSION_THRESHOLD_SIZE)

ImageClass == {ImageJpeg, ImagePng, ImageSvg}
TextClass == {TextPlain, AppJson}

\* C14: with image compression enabled, shouldCompressFile is true for every
\* image mimetype and every size, whatever the threshold and the other flags.
C14_ImagesAlwaysEligible ==
    (resp.op = "shouldCompress" /\ resp.mimetype \in ImageClass /\ ImagesEnabled)
        => resp.result

\* image/png of size 1 with {compressImages: true}.
C14_Witness ==
    /\ resp.op = "shouldCompress"
    /\ resp.mimetype = ImagePng
    /\ resp.size = 1
    /\ resp.options = [compressImages |-> TRUE]
    /\ resp.result

C16_NonImageEligibility ==
    (resp.op = "shouldCompress" /\ resp.mimetype \notin ImageClass) =>
        /\ resp.result => (AtThreshold /\ resp.mimetype \in TextClass /\ TextEnabled)
        /\ resp.mimetype \in TextClass => (resp.result <=> (AtThreshold /\ TextEnabled))
        /\ resp.mimetype \notin (TextClass \cup {AppPdf}) => ~resp.result

\* text/plain one byte below the environment's threshold: not eligible.
C16_Witness ==
    /\ resp.op = "shouldCompress"
    /\ resp.mimetype = TextPlain
    /\ resp.size = CompressionThresholdSize - 1
    /\ "thresholdSize" \notin DOMAIN resp.options
    /\ TextEnabled
    /\ ~resp.result

\* C17: on positive sizes, with ratio = size / original, compressionType is
\* webp if webpRatio < pngRatio and webpRatio < 0.95, else png if
\* pngRatio < 0.95, else the smaller derivative (png on a tie); compressedSize
\* is the size of the derivative compressionType names, and it is at most the
\* original or the smaller of the two.
C17_ResultSelection ==
    resp.op = "compressImage" =>
        LET o == resp.originalSize
            p == resp.compressedPngSize
            w == resp.webpSize
            \* a/o < b/o and a/o < 95/100, cleared of their denominators
            webpRatioLess == w * o < p * o
            webpGood == w * 100 < 95 * o
            pngGood == p * 100 < 95 * o
            expected == IF webpRatioLess /\ webpGood THEN "webp"
                        ELSE IF pngGood THEN "png"
                        ELSE IF w < p THEN "webp" ELSE "png"
            smaller == IF p <= w THEN p ELSE w
            r == resp.result
        IN  /\ r.compressionType = expected
            /\ r.compressedSize = (IF r.compressionType = "webp" THEN w ELSE p)
            /\ r.compressedSize <= o \/ r.compressedSize = smaller

\* Neither derivative beats 0.95 and the webp one, larger than the original,
\* is the smaller.
C17_Witness ==
    /\ resp.op = "compressImage"
    /\ resp.webpSize > resp.originalSize
    /\ resp.webpSize < resp.compressedPngSize
    /\ resp.result.compressionType = "webp"
    /\ resp.result.compressedSize = resp.webpSize

\* C18: a completed record's savingsPercentage is
\* (originalSize - compressedSize) / originalSize * 100 of the chosen derivative,
\* within the 0..100 the schema declares, and compressedSize is positive.
C18_SavingsInRange ==
    \A i \in FileIds :
        (db[i] # NoRecord /\ Status(i) = "completed") =>
            LET ci == db[i].compressionInfo
                sp == ci.savingsPercentage
            IN  /\ ci.compressedSize > 0
                /\ sp.den = ci.originalSize
                /\ sp.num = (ci.originalSize - ci.compressedSize) * 100
                /\ 0 <= sp.num
                /\ sp.num <= 100 * sp.den

\* C19: for an authorized requester the default fileUrl is the compressed/webp
\* URL if compression completed with primary type webp, the compressed/png URL
\* if it completed with primary type png, the serve URL otherwise; pngUrl and
\* webpUrl are both present exactly when compression completed.
C19_DefaultUrl ==
    resp.op = "addFileUrl" =>
        \A doc \in resp.docs :
            doc.canAccess =>
                LET ci == resp.seen.compressionInfo
                    completed == ci.compressionStatus = "completed"
                IN  /\ doc.fileUrl =
                          (IF completed /\ ci.compressionType = "webp" THEN "compressed/webp"
                           ELSE IF completed /\ ci.compressionType = "png" THEN "compressed/png"
                           ELSE "serve")
                    /\ completed => (doc.pngUrl = "compressed/png"
                                     /\ doc.webpUrl = "compressed/webp")
                    /\ ~completed => (doc.pngUrl = Undef /\ doc.webpUrl = Undef)

\* Completed with png as the primary type: png is the default, webp is offered too.
C19_Witness ==
    /\ resp.op = "addFileUrl"
    /\ resp.seen.compressionInfo.compressionStatus = "completed"
    /\ resp.seen.compressionInfo.compressionType = "png"
    /\ \E doc \in resp.docs :
          /\ doc.canAccess
          /\ doc.fileUrl = "compressed/png"
          /\ doc.webpUrl = "compressed/webp"

\* C20: when the access check of any id of the list fails, compressFiles ends
\* in 401 Access Denied, no archive file is on disk and no input file has been
\* read, whatever the position of the id.
C20_ArchiveFailsFast ==
    (req.pc \in {"zipValidate", "zipFetch", "zipArchive", "zipDone"} /\ req.denied # {}) =>
        /\ req.pc = "zipDone"
        /\ resp.op = "zip"
        /\ resp.status = 401
        /\ \A f \in disk : f.bytes # "zip"
        /\ req.read = <<>>

\* The second id of the list is refused after the first passed.
C20_Witness ==
    /\ req.pc = "zipDone"
    /\ req.k = 2
    /\ req.denied = {req.fileIds[2]}
    /\ req.fileIds[1] # req.fileIds[2]
    /\ resp.op = "zip"
    /\ resp.status = 401
    /\ \A f \in disk : f.bytes # "zip"

\* C21: when reading an input or writing the output fails while the archive
\* is streamed, compressFiles fails with the generic Compression Error (500)
\* and does not resolve with a result.
C21_StreamFailureIsCompressionError ==
    (req.pc = "zipDone" /\ req.failure # "none") =>
        (resp.op = "zip" /\ resp.status = 500 /\ resp.message = "compression")

\* A record's bytes are where the upload stored them.
StoredBytesExist(file) == file # NoRecord /\ Exists(disk, file.path)

\* C22: when every id passed the access check and every file's bytes exist
\* where the upload stored them, compressFiles succeeds, the bytes of every
\* file are in the archive, and fileCount is the number of files included.
C22_ArchiveOfStoredFiles ==
    ( /\ req.pc = "zipDone"
      /\ req.denied = {}
      /\ req.failure # "write"
      /\ \A m \in DOMAIN req.files : StoredBytesExist(req.files[m]) )
    => /\ resp.op = "zip"
       /\ resp.status = 200
       /\ req.read = req.fileIds
       /\ req.fileCount = Len(req.read)

\* C26: POST /cleanup/fix-pdfs is admin only: a run requested with a role other
\* than admin changes no record.
C26_FixPdfsAdminOnly ==
    [][ (fix.pc = "loop" /\ fix' # fix /\ fix.userRole # "admin") => db' = db ]_vars

\* C27: when a run of fixStuckPdfFiles that began with no upload and no
\* compression in flight returns, no record has compressionStatus processing,
\* whatever its mimetype.
C27_NothingLeftProcessing ==
    [][ (fix.pc # "done" /\ fix'.pc = "done" /\ fix'.quiet) =>
            \A i \in FileIds : db'[i] # NoRecord =>
                db'[i].compressionInfo.compressionStatus # "processing" ]_vars

\* C28: after a successful upload, on the single or the multiple route, the
\* record's filename is {uploadedBy}_{recordId}{ext} and, as long as no
\* compression has touched them, the bytes are stored under that name inside
\* the folder made for the upload.
C28_StoredUnderRecordName ==
    up.pc = "done" =>
        LET file == db[up.id]
        IN  file # NoRecord =>
                /\ file.filename = <<"rec", up.path.ext>>
                /\ file.path = Path("org", up.id, "rec", up.path.ext)
                /\ (bg.pc = "idle" => Exists(disk, file.path))

\* C29: when the move to the final name fails in createFile, createFile
\* returns no file, no compression is dispatched, and the record is left as it
\* was saved: present, with the filename and path it had before the move, the
\* bytes still at that path, and (unless fixStuckPdfFiles has run since) the
\* compressionInfo of the first save.
C29_MoveFailureLeavesSavedRecord ==
    up.pc = "failed" =>
        LET file == db[up.id]
        IN  /\ up.result = NoRecord
            /\ bg.pc = "idle"
            /\ file # NoRecord
            /\ file.filename = <<"tmp", up.path.ext>>
            /\ file.path = SavedPath
            /\ Exists(disk, SavedPath)
            /\ (fix.pc = "idle" =>
                    file.compressionInfo =
                        CompressionInfo(FALSE, up.size, NoSize, NoSavings, Undef, Undef,
                                        CompressionStatusDefault))

\* The move has failed and no maintenance run has touched the record.
C29_Witness ==
    /\ up.pc = "failed"
    /\ fix.pc = "idle"
    /\ db[up.id] # NoRecord
    /\ db[up.id].filename[1] = "tmp"

\* The ids the sweep found expired at its start.
SweptIds == {fix.found[n] : n \in 1..Len(fix.found)}

\* An admin's cleanupExpiredFiles has returned.
SweepReturned == fix.pc = "done" /\ fix.userRole = "admin"

\* C23: when the deletion of one expired record throws, cleanupExpiredFiles
\* still calls deleteFile for every other expired record it found, and returns
\* the number of calls that did not throw.
C23_SweepContinuesPastFailure ==
    SweepReturned =>
        /\ fix.attempted = SweptIds
        /\ fix.deletedCount = Len(fix.found) - Cardinality(fix.thrown)

\* Two expired records, the deletion of the first threw, the second was deleted
\* and counted.
C23_Witness ==
    /\ SweepReturned
    /\ Len(fix.found) = 2
    /\ fix.thrown = {fix.found[1]}
    /\ fix.deletedCount = 1
    /\ db[fix.found[2]] = NoRecord

\* C24: after an admin's sweep in which no deletion failed and no other request
\* ran, every record that was expired at the start is gone and none of its
\* bytes is on disk, every other record and its files are as before, and the
\* returned count is the number of records removed.
C24_SweepRemovesExpired ==
    (SweepReturned /\ fix.thrown = {} /\ fix.unlinkFailed = {} /\ req.pc = "idle") =>
        /\ \A i \in SweptIds :
              /\ db[i] = NoRecord
              /\ \A f \in disk : f.id # i
        /\ \A i \in FileIds \ SweptIds :
              /\ db[i] = fix.before[i]
              /\ {f \in disk : f.id = i} = {f \in fix.diskBefore : f.id = i}
        /\ fix.deletedCount = Cardinality(SweptIds)

\* C25: cleanupExpiredFiles called with a role other than admin answers Access
\* Denied and leaves every record and every stored file as it was.
C25_SweepAdminOnly ==
    (fix.pc = "done" /\ fix.userRole # "admin") =>
        /\ fix.attempted = {}
        /\ fix.deletedCount = 0
        /\ (req.pc = "idle" =>
               /\ db = fix.before
               /\ disk = fix.diskBefore
               /\ resp.status = 401
               /\ resp.message = "Access Denied")

\* A non-admin asked for the sweep while an expired record was stored.
C25_Witness ==
    /\ fix.pc = "done"
    /\ fix.userRole = "user"
    /\ req.pc = "idle"
    /\ expiredFiles(db) # <<>>

\* C30: a step of a requester's operation on a record changes the records and
\* the stored bytes only if the requester is the record's owner or an admin;
\* for any other requester the operation ends in an authorization error.
C30_ChangeByOwnerOrAdmin ==
    [][ ( /\ req' # req
          /\ db[req'.id] # NoRecord
          /\ db[req'.id].uploadedBy # req'.userId
          /\ req'.userRole # "admin" )
        => ( /\ db' = db
             /\ disk' = disk
             /\ (req'.pc = "done" => resp'.status \in AuthorizationStatuses) ) ]_vars

\* C31: a step of the periodic folder sweep, interleaved with an upload, its
\* organizing, a compression and a DELETE, adds nothing to the disk and removes
\* only folders that hold no entry in the state the step is taken from; it
\* never removes a file.
C31_SweepRemovesOnlyEmptyFolders ==
    [][ fix' # fix =>
          /\ disk' \subseteq disk
          /\ \A f \in disk \ disk' :
                /\ f.bytes = "dir"
                /\ FolderEntries(disk, f.dir, f.id) = {} ]_vars

\* The sweep has removed one folder, and its rmdir of another was refused
\* because that folder holds a file by then.
C31_Witness ==
    /\ fix.pc = "done"
    /\ fix.removed # {}
    /\ fix.error = "rmdir"
    /\ FolderEntries(disk, "org", fix.folders[fix.k]) # {}

\* C32: a failing deletion of a file or folder never fails the operation it
\* belongs to.  deleteFile goes on to delete the record whatever the unlink
\* did, and answers 200 once the record is deleted; the cleanup of compressImage
\* always ends in the successful result, whatever its unlink and rmdir did; an
\* error in the folder sweep ends that run and touches nothing else.
C32_CleanupNeverFatal ==
    [][ /\ (req.pc = "unlink" /\ req' # req) => req'.pc = "remove"
        /\ (req.pc = "remove" /\ req' # req /\ db'[req.id] = NoRecord) =>
               resp'.status = 200
        /\ (bg.pc = "cleanup" /\ bg' # bg) =>
               /\ bg'.pc = "resolved"
               /\ bg'.result = ImageResult(bg.originalSize, bg.pngSize, bg.webpSize,
                                           bg.folder)
        /\ (fix' # fix /\ fix'.error # "none") =>
               /\ fix'.pc = "done"
               /\ resp' = NoResp
               /\ <<db, disk, up, bg, req>>' = <<db, disk, up, bg, req>> ]_vars

\* DELETE answered 200 with the record gone and its file still on disk, after a
\* compression that resolved its result although the original could not be
\* removed, and after a sweep that ended in an error.
C32_Witness ==
    /\ resp.op = "delete"
    /\ resp.status = 200
    /\ db[resp.seen.id] = NoRecord
    /\ Exists(disk, resp.seen.path)
    /\ bg.pc \in {"resolved", "done"}
    /\ bg.result # NoResult
    /\ bg.filePath # PngPath(bg)
    /\ Exists(disk, bg.filePath)
    /\ fix.error # "none"

\* The original of the running compression lies at the path of one of its
\* derivatives.
SamePathAsDerivative == bg.filePath = PngPath(bg) \/ bg.filePath = WebpPath(bg)

\* C33: when the original's path is the png or webp derivative's path, the
\* cleanup after the transcode leaves the file at that path, which is the
\* record's path; and the cleanup removes the upload's folder only if the
\* folder has no entry once the cleanup's unlink is done.
C33_SamePathKept ==
    [][ (bg.pc = "cleanup" /\ bg' # bg) =>
          /\ (SamePathAsDerivative /\ Exists(disk, bg.filePath)) =>
                /\ Exists(disk', bg.filePath)
                /\ (db[bg.id] # NoRecord => db[bg.id].path = bg.filePath)
          /\ ~HasFolder(disk', bg.folder, bg.id) =>
                FolderEntries(disk', bg.folder, bg.id) = {} ]_vars

\* A png uploaded through POST /upload has been compressed and its record
\* completed, with a file at the record's path.
C33_Witness ==
    /\ bg.pc = "done"
    /\ SamePathAsDerivative
    /\ db[bg.id] # NoRecord
    /\ db[bg.id].compressionInfo.compressionStatus = "completed"
    /\ db[bg.id].path = bg.filePath
    /\ Exists(disk, bg.filePath)

\* C36: within one run of the folder sweep an error on one folder does not
\* stop the run: when the run ends, every folder it listed has been examined.
C36_SweepExaminesEveryFolder ==
    fix.pc = "done" =>
        \A n \in 1..Len(fix.folders) : fix.folders[n] \in fix.examined

\* The upload has returned its file and no compression is in flight.
Quiescent == up.pc = "done" /\ bg.pc \in {"idle", "done"}

\* The route a URL points at finds its file on disk.
Resolves(file, url) ==
    CASE url = Undef -> TRUE
      [] url = "compressed/png" ->
            /\ HasFolderId(file.compressionInfo)
            /\ Exists(disk, CompressedPath(file, "png"))
      [] url = "compressed/webp" ->
            /\ HasFolderId(file.compressionInfo)
            /\ Exists(disk, CompressedPath(file, "webp"))
      [] OTHER -> Exists(disk, ServePath(file))

\* C34: in every quiescent state, every URL that addFileUrl gives the owner of
\* an existing record resolves, in its route, to a file that exists on disk.
C34_ExposedUrlsResolve ==
    Quiescent =>
        \A i \in FileIds :
            db[i] # NoRecord =>
                LET urls == addFileUrl(db[i], db[i].uploadedBy, "user")
                IN  /\ Resolves(db[i], urls.fileUrl)
                    /\ Resolves(db[i], urls.downloadUrl)
                    /\ Resolves(db[i], urls.pngUrl)
                    /\ Resolves(db[i], urls.webpUrl)

\* C35: whenever neither the expired-file sweep nor a requester's operation is
\* under way, every file on disk belongs to a record that exists.
C35_NoFileWithoutRecord ==
    (fix.pc \in {"idle", "done"} /\ req.pc \in {"idle", "done"}) =>
        \A f \in disk : db[f.id] # NoRecord

\* C38: every record whose bytes compressFiles has put into the archive passes
\* canAccessFile for the requester, in the state of the record that was
\* fetched to build the archive.
C38_ArchivedFilesViewable ==
    req.pc = "zipDone" =>
        \A m \in 1..Len(req.files) :
            ( /\ req.files[m] # NoRecord
              /\ \E n \in 1..Len(req.read) : req.read[n] = req.files[m].id )
            => canAccessFile(req.files[m], req.userId, req.userRole)

\* C39: the step in which compressFiles opens and writes its archive leaves
\* every file of every existing record on disk as it was, whatever archiveName
\* the caller supplied.
C39_ArchiveOverwritesNothing ==
    [][ (req.pc = "zipArchive" /\ req' # req) =>
          \A f \in disk : (f.id \in FileIds /\ db[f.id] # NoRecord) => f \in disk' ]_vars

\* C37: when an addLocationMetadata and an addCustomMetadata request on the
\* same record have both returned 200, the record's metadata holds both the
\* location and the custom addition.
C37_BothAdditionsKept ==
    \A r, q \in Requesters :
        ( /\ req[r].pc = "done" /\ req[r].status = 200 /\ req[r].op = "location"
          /\ req[q].pc = "done" /\ req[q].status = 200 /\ req[q].op = "custom"
          /\ req[r].id = req[q].id
          /\ db[req[r].id] # NoRecord )
        => {"location", "custom"} \subseteq db[req[r].id].metadata

\* A step that is one of the compression status writes: the 'processing' or
\* not_needed write of createFile, the completion callback, a write of
\* fixStuckPdfFiles.
StatusWriteStep ==
    \/ up.pc \in {"markProcessing", "markNotNeeded"} /\ up' # up
    \/ bg.pc \in {"resolved", "null"} /\ bg' # bg
    \/ fix.pc = "loop" /\ fix' # fix

\* The record is the same but for the named field.
SameBut(field, before, after) ==
    /\ before # NoRecord
    /\ after # NoRecord
    /\ \A k \in DOMAIN before \ {field} : after[k] = before[k]

====
